---- MODULE Spec2Model ----
(***************************************************************************)
(* CalmNews: the feed store (internal/storage), the feed parser and the    *)
(* ingestion scheduler (internal/feeds) and the web handlers that write    *)
(* the store (internal/web), as one state machine.                         *)
(*                                                                         *)
(* Time is wall-clock time in whole minutes.  The two SQLite tables are    *)
(* functions from primary key to row; a SQL NULL and a nil *time.Time are  *)
(* both NULL.  is_read / is_saved are the INTEGER columns 0 / 1.           *)
(***************************************************************************)
EXTENDS Integers, Sequences, FiniteSets, TLC

(***************************************************************************)
(* Bounds of the model.                                                    *)
(***************************************************************************)
\* the clock is observed at this many ticker periods after the start
MaxTicks == 2
\* scheduler cycles explored (the startup cycle included)
MaxCycles == 2
\* entries in one fetched feed document
MaxBatch == 2
\* entries of cfg.Feeds (HandleUpdateFeeds "add" appends without limit)
MaxCfgFeeds == 3
\* user requests (mark read, toggle saved, feed toggle, feed add) explored
MaxRequests == 1
\* failures (network, parse, database) explored in one cycle
MaxFaults == 1
\* the largest limit passed to ListArticlesByView
MaxLimit == 2

(***************************************************************************)
(* Program constants.                                                      *)
(***************************************************************************)
NULL == -1
\* cleanupExpiredArticles: storage.DeleteExpiredArticles(db, 72)
ExpirationHours == 72
\* fetchAllFeeds: defaultInterval := 10 * time.Minute
DefaultIntervalMinutes == 10
\* HandleUpdateFeeds "add": refreshInterval := 10
AddedFeedIntervalMinutes == 10
\* StartScheduler's refreshIntervalMinutes argument: the ticker period
RefreshIntervalMinutes == 5
\* SQLite's ' hours' modifier, in minutes
MinutesPerHour == 60
\* the "week" view: now.AddDate(0, 0, -7)
WeekDays == 7
\* the "latest" view: now.AddDate(0, 0, -3)
LatestDays == 3
\* a calendar day; the clock is local time without daylight-saving shifts
MinutesPerDay == 24 * MinutesPerHour

\* the zero time.Time (January 1 of year 1), long before the clock's origin
ZeroTime == -2

COALESCE(x, y) == IF x # NULL THEN x ELSE y

BoolToInt(b) == IF b THEN 1 ELSE 0

(***************************************************************************)
(* The feeds of the model.  id, name, url and category of a feed are fixed *)
(* per id; FeedOrder lists the ids in the order of their names (ListFeeds' *)
(* ORDER BY name).                                                         *)
(***************************************************************************)
FeedOrder == <<"f1", "f2">>

FeedIDs == {FeedOrder[i] : i \in 1..Len(FeedOrder)}

FeedURL(id) == IF id = "f1" THEN "u1" ELSE "u2"

FeedName(id) == IF id = "f1" THEN "n1" ELSE "n2"

\* storage.Feed
Feed(id, enabled, lastFetchedAt) ==
    [ID |-> id, Name |-> FeedName(id), URL |-> FeedURL(id), Category |-> "c",
     Enabled |-> enabled, LastFetchedAt |-> lastFetchedAt]

\* config.FeedConfig
FeedConfig(id, enabled, interval) ==
    [ID |-> id, Enabled |-> enabled, RefreshIntervalMinutes |-> interval]

(***************************************************************************)
(* internal/storage: the feeds table.                                      *)
(***************************************************************************)
\* INSERT ... ON CONFLICT(id) DO UPDATE SET every column = excluded.column
UpsertFeed(tbl, feed) ==
    [id \in DOMAIN tbl \cup {feed.ID} |-> IF id = feed.ID THEN feed ELSE tbl[id]]

\* a query without the WHERE enabled = 1
ListFeedsEnabledOrNot(tbl, enabledOnly) ==
    LET ids == SelectSeq(FeedOrder, LAMBDA id : id \in DOMAIN tbl)
    IN  [i \in 1..Len(ids) |-> tbl[ids[i]]]

\* SELECT ... FROM feeds [WHERE enabled = 1] ORDER BY name
ListFeeds(tbl, enabledOnly) ==
    LET ids == SelectSeq(FeedOrder,
                 LAMBDA id : id \in DOMAIN tbl /\ (enabledOnly => tbl[id].Enabled))
    IN  [i \in 1..Len(ids) |-> tbl[ids[i]]]

\* UPDATE feeds SET last_fetched_at = ? WHERE id = ?
UpdateFeedLastFetched(tbl, feedID, t) ==
    [id \in DOMAIN tbl |->
        IF id = feedID THEN [tbl[id] EXCEPT !.LastFetchedAt = t] ELSE tbl[id]]

(***************************************************************************)
(* internal/storage: the articles table.                                   *)
(***************************************************************************)
\* sha256 is taken as collision-free: the digest stands for its input
hashArticleID(feedURL, entryGUID) == feedURL \o "|" \o entryGUID

GenerateArticleID(feedURL, entryGUID) == hashArticleID(feedURL, entryGUID)

\* an insert that stores every article as read
InsertedRowAsRead(a) ==
    [ID |-> a.ID, FeedID |-> a.FeedID, Title |-> a.Title, URL |-> a.URL,
     Summary |-> a.Summary, Content |-> a.Content, PublishedAt |-> a.PublishedAt,
     FetchedAt |-> a.FetchedAt, SourceName |-> a.SourceName,
     Categories |-> a.Categories, IsRead |-> 1, IsSaved |-> BoolToInt(a.IsSaved)]

\* the row INSERT writes for article a
InsertedRow(a) ==
    [ID |-> a.ID, FeedID |-> a.FeedID, Title |-> a.Title, URL |-> a.URL,
     Summary |-> a.Summary, Content |-> a.Content, PublishedAt |-> a.PublishedAt,
     FetchedAt |-> a.FetchedAt, SourceName |-> a.SourceName,
     Categories |-> a.Categories,
     IsRead |-> BoolToInt(a.IsRead), IsSaved |-> BoolToInt(a.IsSaved)]

\* an upsert that takes fetched_at from the incoming row
ConflictRowFetchedAtExcluded(old, ex) ==
    [ID |-> old.ID, FeedID |-> old.FeedID, Title |-> ex.Title, URL |-> ex.URL,
     Summary |-> ex.Summary, Content |-> ex.Content, PublishedAt |-> ex.PublishedAt,
     FetchedAt |-> ex.FetchedAt,
     SourceName |-> ex.SourceName, Categories |-> ex.Categories,
     IsRead |-> COALESCE(ex.IsRead, old.IsRead),
     IsSaved |-> COALESCE(ex.IsSaved, old.IsSaved)]

\* ON CONFLICT(id) DO NOTHING
ConflictRowDoNothing(old, ex) == old

\* the ON CONFLICT(id) DO UPDATE SET clause: old is the stored row, ex the
\* excluded (incoming) one; feed_id is not in the SET list
ConflictRow(old, ex) ==
    [ID |-> old.ID, FeedID |-> old.FeedID, Title |-> ex.Title, URL |-> ex.URL,
     Summary |-> ex.Summary, Content |-> ex.Content, PublishedAt |-> ex.PublishedAt,
     FetchedAt |-> COALESCE(old.FetchedAt, ex.FetchedAt),
     SourceName |-> ex.SourceName, Categories |-> ex.Categories,
     IsRead |-> COALESCE(ex.IsRead, old.IsRead),
     IsSaved |-> COALESCE(ex.IsSaved, old.IsSaved)]

UpsertArticle(tbl, a) ==
    IF a.ID \in DOMAIN tbl
    THEN [tbl EXCEPT ![a.ID] = ConflictRow(tbl[a.ID], InsertedRow(a))]
    ELSE [id \in DOMAIN tbl \cup {a.ID} |->
             IF id = a.ID THEN InsertedRow(a) ELSE tbl[id]]

\* an update that loses its WHERE clause and marks every row
MarkArticleAsReadEveryRow(tbl, articleID) ==
    [id \in DOMAIN tbl |-> [tbl[id] EXCEPT !.IsRead = 1]]

\* an update that sets is_saved instead of negating it
ToggleArticleSavedSetsSaved(tbl, articleID) ==
    [id \in DOMAIN tbl |->
        IF id = articleID THEN [tbl[id] EXCEPT !.IsSaved = 1] ELSE tbl[id]]

\* UPDATE articles SET is_read = 1 WHERE id = ?
MarkArticleAsRead(tbl, articleID) ==
    [id \in DOMAIN tbl |->
        IF id = articleID THEN [tbl[id] EXCEPT !.IsRead = 1] ELSE tbl[id]]

\* UPDATE articles SET is_saved = NOT is_saved WHERE id = ?
ToggleArticleSaved(tbl, articleID) ==
    [id \in DOMAIN tbl |->
        IF id = articleID
        THEN [tbl[id] EXCEPT !.IsSaved = IF tbl[id].IsSaved = 0 THEN 1 ELSE 0]
        ELSE tbl[id]]

\* an expiry that forgets the is_saved = 0 condition
ExpiredSavedToo(r, expirationHours, t) ==
    r.FetchedAt + expirationHours * MinutesPerHour < t

\* an expiry that also takes the rows that are exactly expirationHours old
ExpiredAtAge(r, expirationHours, t) ==
    /\ r.IsSaved = 0
    /\ r.FetchedAt + expirationHours * MinutesPerHour <= t

\* the WHERE clause of DeleteExpiredArticles, for row r at time t
Expired(r, expirationHours, t) ==
    /\ r.IsSaved = 0
    /\ r.FetchedAt + expirationHours * MinutesPerHour < t

\* DELETE FROM articles WHERE ...; the result is the table and RowsAffected
DeleteExpiredArticles(tbl, expirationHours, t) ==
    LET gone == {id \in DOMAIN tbl : Expired(tbl[id], expirationHours, t)}
    IN  [articles |-> [id \in DOMAIN tbl \ gone |-> tbl[id]],
         deleted |-> Cardinality(gone)]

\* a lookup that needs two rows with the title
ArticleExistsByTitleTwice(tbl, title) ==
    Cardinality({id \in DOMAIN tbl : tbl[id].Title = title}) > 1

\* SELECT COUNT(*) FROM articles WHERE title = ?; count > 0
ArticleExistsByTitle(tbl, title) ==
    Cardinality({id \in DOMAIN tbl : tbl[id].Title = title}) > 0

(***************************************************************************)
(* internal/storage: ListArticlesByView at time t.                         *)
(***************************************************************************)
\* time.Date(now.Year(), now.Month(), now.Day(), 0, 0, 0, 0, now.Location())
StartOfDay(t) == t - (t % MinutesPerDay)

\* a "today" window of the last 24 hours
TimeWindowRollingDay(view, t) ==
    CASE view = "today" -> t - MinutesPerDay
      [] view = "week" -> t - WeekDays * MinutesPerDay
      [] OTHER -> t - LatestDays * MinutesPerDay

\* timeWindow; the "saved" view has none
TimeWindow(view, t) ==
    CASE view = "today" -> StartOfDay(t)
      [] view = "week" -> t - WeekDays * MinutesPerDay
      [] OTHER -> t - LatestDays * MinutesPerDay

\* a "saved" view that also applies the window of "latest"
SelectedSavedInWindow(r, view, feedID, readFilter, t) ==
    /\ view = "saved" => r.IsSaved = 1
    /\ r.PublishedAt >= TimeWindow(view, t)
    /\ (feedID # "" /\ feedID # "all") => r.FeedID = feedID
    /\ readFilter = "unread" => r.IsRead = 0
    /\ readFilter = "read" => r.IsRead = 1

\* a WHERE clause without the feed filter
SelectedInEveryFeed(r, view, feedID, readFilter, t) ==
    /\ IF view = "saved" THEN r.IsSaved = 1 ELSE r.PublishedAt >= TimeWindow(view, t)
    /\ readFilter = "unread" => r.IsRead = 0
    /\ readFilter = "read" => r.IsRead = 1

\* the WHERE clause
Selected(r, view, feedID, readFilter, t) ==
    /\ IF view = "saved" THEN r.IsSaved = 1 ELSE r.PublishedAt >= TimeWindow(view, t)
    /\ (feedID # "" /\ feedID # "all") => r.FeedID = feedID
    /\ readFilter = "unread" => r.IsRead = 0
    /\ readFilter = "read" => r.IsRead = 1

\* ORDER BY published_at DESC
OrderedBeforeByDateOnly(a, b) == a.PublishedAt >= b.PublishedAt

\* ORDER BY is_read ASC, published_at DESC: row a may come before row b
OrderedBefore(a, b) ==
    \/ a.IsRead < b.IsRead
    \/ a.IsRead = b.IsRead /\ a.PublishedAt >= b.PublishedAt

\* rows.Scan into an Article: is_read and is_saved become booleans
ScanArticle(r) == [r EXCEPT !.IsRead = (r.IsRead = 1), !.IsSaved = (r.IsSaved = 1)]

\* a query that cuts the head of the ordered rows and returns the tail
ListArticlesByViewCutsHead(tbl, view, feedID, readFilter, limit, t) ==
    LET sel == {id \in DOMAIN tbl : Selected(tbl[id], view, feedID, readFilter, t)}
        n == Cardinality(sel)
        skip == IF limit < n THEN n - limit ELSE 0
        orders == {f \in [1..n -> sel] :
                      /\ \A i, j \in 1..n : i # j => f[i] # f[j]
                      /\ \A i, j \in 1..n : i < j => OrderedBefore(tbl[f[i]], tbl[f[j]])}
    IN  {[i \in 1..(n - skip) |-> ScanArticle(tbl[f[i + skip]])] : f \in orders}

\* the results the query can give: the selected rows in an order that
\* ORDER BY allows (rows with equal keys come in any order), cut at LIMIT
ListArticlesByView(tbl, view, feedID, readFilter, limit, t) ==
    LET sel == {id \in DOMAIN tbl : Selected(tbl[id], view, feedID, readFilter, t)}
        n == Cardinality(sel)
        orders == {f \in [1..n -> sel] :
                      /\ \A i, j \in 1..n : i # j => f[i] # f[j]
                      /\ \A i, j \in 1..n : i < j => OrderedBefore(tbl[f[i]], tbl[f[j]])}
    IN  {[i \in 1..(IF limit < n THEN limit ELSE n) |-> ScanArticle(tbl[f[i]])] :
            f \in orders}

(***************************************************************************)
(* internal/filter.  A text that the filter looks into is a sequence of    *)
(* one-character strings: <<"A", "b">> is the Go string "Ab".              *)
(***************************************************************************)
UpperLetters == <<"A", "B", "C", "D">>

LowerLetters == <<"a", "b", "c", "d">>

WhiteSpace == {" "}

\* strings.ToLower
ToLower(s) ==
    [i \in 1..Len(s) |->
        IF \E k \in 1..Len(UpperLetters) : s[i] = UpperLetters[k]
        THEN LowerLetters[CHOOSE k \in 1..Len(UpperLetters) : s[i] = UpperLetters[k]]
        ELSE s[i]]

\* strings.TrimSpace: leading and trailing white space is cut
TrimSpace(s) ==
    LET solid == {i \in 1..Len(s) : s[i] \notin WhiteSpace}
    IN  IF solid = {} THEN <<>>
        ELSE SubSeq(s, CHOOSE i \in solid : \A j \in solid : i <= j,
                       CHOOSE i \in solid : \A j \in solid : i >= j)

\* strings.Contains
Contains(s, substr) ==
    \E i \in 0..(Len(s) - Len(substr)) : SubSeq(s, i + 1, i + Len(substr)) = substr

\* a filter that compares the phrases as they are written
ShouldFilterCaseSensitive(article, phrases) ==
    IF Len(phrases) = 0 THEN FALSE
    ELSE LET textBlob == article.Title \o <<" ">> \o article.Summary
         IN  \E i \in 1..Len(phrases) :
                /\ TrimSpace(phrases[i]) # <<>>
                /\ Contains(textBlob, TrimSpace(phrases[i]))

\* ShouldFilter: the loop returns true at the first phrase that is not
\* empty after trimming and is contained in the text blob
ShouldFilter(article, phrases) ==
    IF Len(phrases) = 0 THEN FALSE
    ELSE LET textBlob == ToLower(article.Title \o <<" ">> \o article.Summary)
         IN  \E i \in 1..Len(phrases) :
                LET lowerPhrase == ToLower(TrimSpace(phrases[i]))
                IN  /\ lowerPhrase # <<>>
                    /\ Contains(textBlob, lowerPhrase)

\* a filter that counts the articles it keeps
FilterArticlesCountsKept(arts, phrases) ==
    [filtered |-> SelectSeq(arts, LAMBDA a : ~ShouldFilter(a, phrases)),
     filteredCount |-> Len(SelectSeq(arts, LAMBDA a : ~ShouldFilter(a, phrases)))]

\* FilterArticles: the loop over articles; the result is the pair
\* (filtered, filteredCount)
FilterArticles(arts, phrases) ==
    LET F[i \in 0..Len(arts)] ==
            IF i = 0 THEN [filtered |-> <<>>, filteredCount |-> 0]
            ELSE IF ShouldFilter(arts[i], phrases)
                 THEN [F[i - 1] EXCEPT !.filteredCount = @ + 1]
                 ELSE [F[i - 1] EXCEPT !.filtered = Append(@, arts[i])]
    IN  F[Len(arts)]

(***************************************************************************)
(* internal/feeds: ParseFeed.  An item is a gofeed.Item: GUID, Link,       *)
(* Title, Description, Content, PublishedParsed, UpdatedParsed (NULL for a *)
(* nil pointer).  t is the time.Now() of the parse.                        *)
(***************************************************************************)
\* a parser that also hashes the entry's title into the article id
ParseItemIDWithTitle(item, feedURL, feedID, sourceName, t) ==
    [ID |-> GenerateArticleID(feedURL, item.GUID \o "|" \o item.Title),
     FeedID |-> feedID, Title |-> item.Title, URL |-> item.Link,
     Summary |-> item.Description, Content |-> item.Description,
     PublishedAt |-> item.PublishedParsed, FetchedAt |-> t,
     SourceName |-> sourceName, Categories |-> "",
     IsRead |-> FALSE, IsSaved |-> FALSE]

\* a parser whose publish time has no fallback to the time of the parse
ParseItemNoIngestionTime(item, feedURL, feedID, sourceName, t) ==
    [ID |-> GenerateArticleID(feedURL, IF item.GUID = "" THEN item.Link ELSE item.GUID),
     FeedID |-> feedID, Title |-> item.Title, URL |-> item.Link,
     Summary |-> IF item.Description # "" THEN item.Description ELSE item.Content,
     Content |-> IF item.Content # "" THEN item.Content ELSE item.Description,
     PublishedAt |-> IF item.PublishedParsed # NULL THEN item.PublishedParsed
                     ELSE IF item.UpdatedParsed # NULL THEN item.UpdatedParsed
                     ELSE ZeroTime,
     FetchedAt |-> t, SourceName |-> sourceName, Categories |-> "",
     IsRead |-> FALSE, IsSaved |-> FALSE]

\* a parser whose content has no fallback to the description
ParseItemContentAsGiven(item, feedURL, feedID, sourceName, t) ==
    [ID |-> GenerateArticleID(feedURL, IF item.GUID = "" THEN item.Link ELSE item.GUID),
     FeedID |-> feedID, Title |-> item.Title, URL |-> item.Link,
     Summary |-> IF item.Description # "" THEN item.Description ELSE item.Content,
     Content |-> item.Content,
     PublishedAt |-> IF item.PublishedParsed # NULL THEN item.PublishedParsed
                     ELSE IF item.UpdatedParsed # NULL THEN item.UpdatedParsed
                     ELSE t,
     FetchedAt |-> t, SourceName |-> sourceName, Categories |-> "",
     IsRead |-> FALSE, IsSaved |-> FALSE]

ParseItem(item, feedURL, feedID, sourceName, t) ==
    LET entryGUID == IF item.GUID = "" THEN item.Link ELSE item.GUID
        publishedAt == IF item.PublishedParsed # NULL THEN item.PublishedParsed
                       ELSE IF item.UpdatedParsed # NULL THEN item.UpdatedParsed
                       ELSE t
        summary == IF item.Description # "" THEN item.Description
                   ELSE IF item.Content # "" THEN item.Content
                   ELSE ""
        content == IF item.Content # "" THEN item.Content
                   ELSE IF item.Description # "" THEN item.Description
                   ELSE ""
    IN  [ID |-> GenerateArticleID(feedURL, entryGUID), FeedID |-> feedID,
         Title |-> item.Title, URL |-> item.Link, Summary |-> summary,
         Content |-> content, PublishedAt |-> publishedAt, FetchedAt |-> t,
         SourceName |-> sourceName, Categories |-> "",
         IsRead |-> FALSE, IsSaved |-> FALSE]

ParseFeed(items, feedURL, feedID, sourceName, t) ==
    [i \in 1..Len(items) |-> ParseItem(items[i], feedURL, feedID, sourceName, t)]

(***************************************************************************)
(* fetchAllFeeds' due gate.                                                *)
(***************************************************************************)
\* a gate that ignores cfg.Feeds
FeedIntervalDefaultOnly(cfg, feedID) == DefaultIntervalMinutes

\* the loop over cfg.Feeds: the first entry with this id and a non-nil
\* RefreshIntervalMinutes sets the interval, else defaultInterval stays
FeedInterval(cfg, feedID) ==
    LET hits == {i \in 1..Len(cfg) :
                    cfg[i].ID = feedID /\ cfg[i].RefreshIntervalMinutes # NULL}
    IN  IF hits = {} THEN DefaultIntervalMinutes
        ELSE cfg[CHOOSE i \in hits : \A j \in hits : i <= j].RefreshIntervalMinutes

\* FALSE is the `continue` of "not enough time has passed"
FeedDue(feed, cfg, t) ==
    \/ feed.LastFetchedAt = NULL
    \/ ~(t - feed.LastFetchedAt < FeedInterval(cfg, feed.ID))

\* a title filter that lets an entry through to refresh its own row: only
\* a row with another id counts as a duplicate
UniqueArticlesOfOtherIDs(batchArticles, tbl, lookupErr) ==
    LET keep(i) == \/ i \in lookupErr
                   \/ ~\E id \in DOMAIN tbl : /\ tbl[id].Title = batchArticles[i].Title
                                              /\ id # batchArticles[i].ID
        F[i \in 0..Len(batchArticles)] ==
            IF i = 0 THEN <<>>
            ELSE IF keep(i) THEN Append(F[i - 1], batchArticles[i]) ELSE F[i - 1]
    IN  F[Len(batchArticles)]

\* a title filter that also drops an entry whose title an earlier entry of
\* the batch has
UniqueArticlesWithinBatch(batchArticles, tbl, lookupErr) ==
    LET keep(i) == /\ i \in lookupErr \/ ~ArticleExistsByTitle(tbl, batchArticles[i].Title)
                   /\ \A k \in 1..(i - 1) : batchArticles[k].Title # batchArticles[i].Title
        F[i \in 0..Len(batchArticles)] ==
            IF i = 0 THEN <<>>
            ELSE IF keep(i) THEN Append(F[i - 1], batchArticles[i]) ELSE F[i - 1]
    IN  F[Len(batchArticles)]

\* the title filter of fetchAndStoreFeed: entry i is dropped when its lookup
\* succeeded (i \notin lookupErr) and found the title in tbl
UniqueArticles(batchArticles, tbl, lookupErr) ==
    LET keep(i) == i \in lookupErr \/ ~ArticleExistsByTitle(tbl, batchArticles[i].Title)
        F[i \in 0..Len(batchArticles)] ==
            IF i = 0 THEN <<>>
            ELSE IF keep(i) THEN Append(F[i - 1], batchArticles[i]) ELSE F[i - 1]
    IN  F[Len(batchArticles)]

\* the instants at which the clock is observed, in minutes: the first ticker
\* periods, and one hour before, at and one hour after the expiry age
Instants ==
    {m * RefreshIntervalMinutes : m \in 0..MaxTicks}
    \cup {(ExpirationHours + h) * MinutesPerHour : h \in {-1, 0, 1}}

(***************************************************************************)
(* State.                                                                  *)
(***************************************************************************)
VARIABLES
    now,            \* wall-clock time
    tickPending,    \* ticker.C holds a tick (a channel of capacity 1)
    feeds,          \* table feeds
    articles,       \* table articles
    cfgFeeds,       \* cfg.Feeds, shared by the scheduler and the web server
    pc,             \* where the scheduler goroutine is
    cycle,          \* number of the current cycle
    feedList,       \* fetchAllFeeds: feeds
    cycleNow,       \* fetchAllFeeds: now
    idx,            \* fetchAllFeeds: position in feeds
    batch,          \* fetchAndStoreFeed: articles
    lookupErr,      \* fetchAndStoreFeed: entries whose ArticleExistsByTitle failed
    uniqueArticles, \* fetchAndStoreFeed: uniqueArticles
    uidx,           \* fetchAndStoreFeed: position in uniqueArticles
    toggleFeed,     \* HandleUpdateFeeds "toggle": the feed GetFeedByID returned
    blocklist,      \* cfg.Blocklist
    ui,             \* cfg.UI
    rendered,       \* HandleIndex: filteredArticles and the template data
    hiddenBefore,   \* history: the articles the last front page left out of the store as it is
    listed,         \* HandleIndex: the request and the articles ListArticlesByView returned
    lastCall,       \* history: the storage call being served, and the row it found
    requests,       \* user requests served so far
    faults,         \* failures so far in this cycle
    attemptAt,      \* history: per feed, the time of its last fetch attempt
    outcome,        \* history: per feed, how its last fetch attempt ended
    skipped,        \* history: the feeds this cycle skipped as not due
    attempted,      \* history: the feeds this cycle called fetchAndStoreFeed for
    lastUpsert,     \* history: the last UpsertArticle of this fetch, and the failed ones
    expiredAt,      \* history: the time of the last DeleteExpiredArticles
    expired,        \* history: the rows the last DeleteExpiredArticles removed
    deleted         \* cleanupExpiredArticles: deleted

vars == <<now, tickPending, feeds, articles, cfgFeeds, pc, cycle, feedList,
          cycleNow, idx, batch, lookupErr, uniqueArticles, uidx, toggleFeed, listed,
          lastCall, requests, faults, attemptAt, outcome, skipped, attempted, lastUpsert, expiredAt,
          deleted, expired, blocklist, ui, rendered, hiddenBefore>>

web == <<blocklist, ui, rendered, hiddenBefore>>

\* DefaultConfig().UI
DefaultUI == [ItemsPerPage |-> 50, DefaultView |-> "latest", ShowFilteredCount |-> TRUE]

schedLocals == <<feedList, cycleNow, idx, batch, lookupErr, uniqueArticles, uidx>>

history == <<attemptAt, outcome, skipped, attempted, lastUpsert, expiredAt, deleted,
              expired>>

NoUpsert == [ID |-> "", conflict |-> FALSE, FetchedAt |-> NULL, stored |-> NULL,
             failed |-> {}]

(***************************************************************************)
(* The remote feed documents of the model: what FetchFeed can return.      *)
(***************************************************************************)
Item(guid, title) ==
    [GUID |-> guid, Link |-> "l", Title |-> title, Description |-> "d",
     Content |-> "", PublishedParsed |-> 0, UpdatedParsed |-> NULL]

\* an entry after its publisher revised it: the text and the date are new
Revised(item) ==
    [item EXCEPT !.Description = "e", !.Content = "c", !.PublishedParsed = 1]

\* feed f1 serves entry g1 under two titles and entry g2; feed f2 serves an
\* entry with a title f1 also uses, which its publisher revises after the
\* startup cycle, keeping the title
RemoteItems(feedID) ==
    IF feedID = "f1" THEN {Item("g1", "t1"), Item("g1", "t2"), Item("g2", "t1")}
    ELSE {IF cycle > 1 THEN Revised(Item("g1", "t1")) ELSE Item("g1", "t1")}

Documents(feedID) == UNION {[1..n -> RemoteItems(feedID)] : n \in 0..MaxBatch}

Init ==
    /\ now = 0
    /\ tickPending = FALSE
    /\ feeds = [id \in FeedIDs |-> Feed(id, TRUE, NULL)]
    /\ articles = <<>>
    /\ cfgFeeds = <<FeedConfig("f1", TRUE, 20), FeedConfig("f2", TRUE, NULL)>>
    /\ pc = "list"
    /\ cycle = 1
    /\ feedList = <<>>
    /\ cycleNow = 0
    /\ idx = 1
    /\ batch = <<>>
    /\ lookupErr = {}
    /\ uniqueArticles = <<>>
    /\ uidx = 1
    /\ toggleFeed = <<>>
    /\ listed = <<>>
    /\ lastCall = <<>>
    /\ requests = 0
    /\ faults = 0
    /\ attemptAt = [id \in FeedIDs |-> NULL]
    /\ outcome = [id \in FeedIDs |-> "none"]
    /\ skipped = {}
    /\ attempted = {}
    /\ lastUpsert = NoUpsert
    /\ expiredAt = NULL
    /\ deleted = 0
    /\ expired = {}
    /\ blocklist = <<>>
    /\ ui = DefaultUI
    /\ rendered = <<>>
    /\ hiddenBefore = {}

(***************************************************************************)
(* The clock and the ticker of StartScheduler.  The ticker is created at   *)
(* time 0 and fires at every multiple of RefreshIntervalMinutes; a tick    *)
(* that finds ticker.C full is dropped.  Time passes while the scheduler   *)
(* waits for the ticker; a cycle takes no time at the clock's resolution.  *)
(***************************************************************************)
TickBetween(t0, t1) == (t1 \div RefreshIntervalMinutes) > (t0 \div RefreshIntervalMinutes)

Advance(t) ==
    /\ pc = "wait"
    /\ t > now
    /\ now' = t
    /\ tickPending' = (tickPending \/ TickBetween(now, t))
    /\ UNCHANGED <<feeds, articles, cfgFeeds, pc, cycle, schedLocals, toggleFeed, listed, lastCall,
                   requests, faults, history>>
    /\ UNCHANGED web

\* one more failure in this cycle
Fault ==
    /\ faults < MaxFaults
    /\ faults' = faults + 1

(***************************************************************************)
(* The scheduler goroutine: StartScheduler, fetchAllFeeds,                 *)
(* fetchAndStoreFeed, cleanupExpiredArticles.  Each step is one statement  *)
(* that reads or writes the database or the network.                       *)
(***************************************************************************)
\* a loop that starts the next cycle without waiting for the ticker
StartScheduler_NoTicker ==
    /\ pc = "wait"
    /\ cycle < MaxCycles
    /\ tickPending' = FALSE
    /\ cycle' = cycle + 1
    /\ pc' = "list"
    /\ faults' = 0
    /\ UNCHANGED <<now, feeds, articles, cfgFeeds, schedLocals, toggleFeed, listed, lastCall,
                   requests, history>>
    /\ UNCHANGED web

\* `for range ticker.C`: the next cycle starts when a tick is received
StartScheduler_Tick ==
    /\ pc = "wait"
    /\ tickPending
    /\ cycle < MaxCycles
    /\ tickPending' = FALSE
    /\ cycle' = cycle + 1
    /\ pc' = "list"
    /\ faults' = 0
    /\ UNCHANGED <<now, feeds, articles, cfgFeeds, schedLocals, toggleFeed, listed, lastCall,
                   requests, history>>
    /\ UNCHANGED web

\* the end of one pass of `for _, feed := range feeds`
NextFeed ==
    /\ idx' = idx + 1
    /\ pc' = IF idx + 1 > Len(feedList) THEN "cleanup" ELSE "check"

\* a scheduler that gave up the cycle at the first failing feed
ReturnAfterError ==
    /\ idx' = idx
    /\ pc' = "cleanup"

\* a scheduler that stops at the first failing feed
ExitAfterError ==
    /\ idx' = idx
    /\ pc' = "exit"

\* fetchAndStoreFeed returned an error: log.Printf(...); continue
ContinueAfterError == NextFeed

\* a cycle whose ListFeeds failed goes back to the ticker without the cleanup
fetchAllFeeds_ListSkipsCleanup ==
    /\ pc = "list"
    /\ \/ /\ Fault
          /\ feedList' = <<>>
          /\ pc' = "wait"
       \/ /\ feedList' = ListFeeds(feeds, TRUE)
          /\ pc' = IF Len(ListFeeds(feeds, TRUE)) = 0 THEN "cleanup" ELSE "check"
          /\ UNCHANGED faults
    /\ cycleNow' = now
    /\ idx' = 1
    /\ UNCHANGED <<now, tickPending, feeds, articles, cfgFeeds, cycle, batch,
                   lookupErr, uniqueArticles, uidx, toggleFeed, listed, lastCall, requests, history>>
    /\ UNCHANGED web

\* feeds, err := storage.ListFeeds(db, true); now := time.Now()
fetchAllFeeds_List ==
    /\ pc = "list"
    /\ \/ \* err != nil: return
          /\ Fault
          /\ feedList' = <<>>
          /\ pc' = "cleanup"
       \/ /\ feedList' = ListFeeds(feeds, TRUE)
          /\ pc' = IF Len(ListFeeds(feeds, TRUE)) = 0 THEN "cleanup" ELSE "check"
          /\ UNCHANGED faults
    /\ cycleNow' = now
    /\ idx' = 1
    /\ UNCHANGED <<now, tickPending, feeds, articles, cfgFeeds, cycle, batch,
                   lookupErr, uniqueArticles, uidx, toggleFeed, listed, lastCall, requests, history>>
    /\ UNCHANGED web

\* the due gate for feeds[idx]
fetchAllFeeds_Check ==
    /\ pc = "check"
    /\ IF FeedDue(feedList[idx], cfgFeeds, cycleNow)
       THEN /\ pc' = "fetch"
            /\ UNCHANGED <<idx, skipped>>
       ELSE /\ NextFeed
            /\ skipped' = skipped \cup {feedList[idx].ID}
    /\ UNCHANGED <<now, tickPending, feeds, articles, cfgFeeds, cycle, feedList,
                   cycleNow, batch, lookupErr, uniqueArticles, uidx, toggleFeed, listed, lastCall,
                   requests, faults, attemptAt, outcome, attempted, lastUpsert,
                   expiredAt, deleted, expired>>
    /\ UNCHANGED web

\* data, err := FetchFeed(feed.URL); articles, err := ParseFeed(data, ...)
fetchAndStoreFeed_Fetch ==
    /\ pc = "fetch"
    /\ attemptAt' = [attemptAt EXCEPT ![feedList[idx].ID] = now]
    /\ attempted' = attempted \cup {feedList[idx].ID}
    /\ \/ \* FetchFeed fails: return fmt.Errorf("failed to fetch: %w", err)
          /\ Fault
          /\ outcome' = [outcome EXCEPT ![feedList[idx].ID] = "fetch error"]
          /\ ContinueAfterError
          /\ batch' = <<>>
       \/ \* ParseFeed fails: return fmt.Errorf("failed to parse: %w", err)
          /\ Fault
          /\ outcome' = [outcome EXCEPT ![feedList[idx].ID] = "parse error"]
          /\ ContinueAfterError
          /\ batch' = <<>>
       \/ \E doc \in Documents(feedList[idx].ID) :
             /\ batch' = ParseFeed(doc, feedList[idx].URL, feedList[idx].ID,
                                   feedList[idx].Name, now)
             /\ outcome' = [outcome EXCEPT ![feedList[idx].ID] = "parsed"]
             /\ pc' = "dedup"
             /\ UNCHANGED <<idx, faults>>
    /\ UNCHANGED <<now, tickPending, feeds, articles, cfgFeeds, cycle, feedList,
                   cycleNow, lookupErr, uniqueArticles, uidx, toggleFeed, listed, lastCall, requests,
                   skipped, lastUpsert, expiredAt, deleted, expired>>
    /\ UNCHANGED web

\* the loop "Filter out duplicate articles by title".  It only reads titles,
\* and no concurrent request changes a title or the set of rows, so the
\* lookups of one batch are one step; errs are the lookups that failed
fetchAndStoreFeed_Dedup ==
    /\ pc = "dedup"
    /\ \E errs \in SUBSET (1..Len(batch)) :
          /\ faults + Cardinality(errs) <= MaxFaults
          /\ faults' = faults + Cardinality(errs)
          /\ lookupErr' = errs
          /\ uniqueArticles' = UniqueArticles(batch, articles, errs)
          /\ pc' = IF Len(UniqueArticles(batch, articles, errs)) = 0
                   THEN "update" ELSE "upsert"
    /\ uidx' = 1
    /\ UNCHANGED <<now, tickPending, feeds, articles, cfgFeeds, cycle, feedList,
                   cycleNow, idx, batch, toggleFeed, listed, lastCall, requests, history>>
    /\ UNCHANGED web

\* a store loop that returns the error of UpsertArticle to fetchAllFeeds
fetchAndStoreFeed_UpsertReturnsError ==
    /\ pc = "upsert"
    /\ \/ /\ articles' = UpsertArticle(articles, uniqueArticles[uidx])
          /\ lastUpsert' = [ID |-> uniqueArticles[uidx].ID,
                            conflict |-> uniqueArticles[uidx].ID \in DOMAIN articles,
                            FetchedAt |-> uniqueArticles[uidx].FetchedAt,
                            stored |-> IF uniqueArticles[uidx].ID \in DOMAIN articles
                                       THEN articles[uniqueArticles[uidx].ID].FetchedAt
                                       ELSE NULL,
                            failed |-> lastUpsert.failed]
          /\ uidx' = uidx + 1
          /\ pc' = IF uidx + 1 > Len(uniqueArticles) THEN "update" ELSE "upsert"
          /\ UNCHANGED <<faults, idx>>
       \/ /\ Fault
          /\ lastUpsert' = NoUpsert
          /\ ContinueAfterError
          /\ UNCHANGED <<articles, uidx>>
    /\ UNCHANGED <<now, tickPending, feeds, cfgFeeds, cycle, feedList, cycleNow,
                   batch, lookupErr, uniqueArticles, toggleFeed, listed, lastCall, requests,
                   attemptAt, outcome, skipped, attempted, expiredAt, deleted, expired>>
    /\ UNCHANGED web

\* one pass of "Store unique articles"
fetchAndStoreFeed_Upsert ==
    /\ pc = "upsert"
    /\ \/ /\ articles' = UpsertArticle(articles, uniqueArticles[uidx])
          /\ lastUpsert' = [ID |-> uniqueArticles[uidx].ID,
                            conflict |-> uniqueArticles[uidx].ID \in DOMAIN articles,
                            FetchedAt |-> uniqueArticles[uidx].FetchedAt,
                            stored |-> IF uniqueArticles[uidx].ID \in DOMAIN articles
                                       THEN articles[uniqueArticles[uidx].ID].FetchedAt
                                       ELSE NULL,
                            failed |-> lastUpsert.failed]
          /\ UNCHANGED faults
       \/ \* err != nil: logged, "Continue with other articles"
          /\ Fault
          /\ lastUpsert' = [NoUpsert EXCEPT !.ID = uniqueArticles[uidx].ID,
                                            !.failed = lastUpsert.failed \cup {uidx}]
          /\ UNCHANGED articles
    /\ uidx' = uidx + 1
    /\ pc' = IF uidx + 1 > Len(uniqueArticles) THEN "update" ELSE "upsert"
    /\ UNCHANGED <<now, tickPending, feeds, cfgFeeds, cycle, feedList, cycleNow,
                   idx, batch, lookupErr, uniqueArticles, toggleFeed, listed, lastCall, requests,
                   attemptAt, outcome, skipped, attempted, expiredAt, deleted, expired>>
    /\ UNCHANGED web

\* now := time.Now(); storage.UpdateFeedLastFetched(db, feed.ID, now)
fetchAndStoreFeed_Update ==
    /\ pc = "update"
    /\ \/ /\ feeds' = UpdateFeedLastFetched(feeds, feedList[idx].ID, now)
          /\ outcome' = [outcome EXCEPT ![feedList[idx].ID] = "ok"]
          /\ NextFeed
          /\ UNCHANGED faults
       \/ \* err != nil: return fmt.Errorf("failed to update last_fetched_at ...")
          /\ Fault
          /\ outcome' = [outcome EXCEPT ![feedList[idx].ID] = "update error"]
          /\ ContinueAfterError
          /\ UNCHANGED feeds
    /\ batch' = <<>>
    /\ lookupErr' = {}
    /\ uniqueArticles' = <<>>
    /\ uidx' = 1
    /\ lastUpsert' = NoUpsert
    /\ UNCHANGED <<now, tickPending, articles, cfgFeeds, cycle, feedList, cycleNow,
                   toggleFeed, listed, lastCall, requests, attemptAt, skipped, attempted,
                   expiredAt, deleted, expired>>
    /\ UNCHANGED web

\* deleted, err := storage.DeleteExpiredArticles(db, 72); the locals of the
\* cycle that has ended are dropped
cleanupExpiredArticles ==
    /\ pc = "cleanup"
    /\ \/ /\ articles' = DeleteExpiredArticles(articles, ExpirationHours, now).articles
          /\ deleted' = DeleteExpiredArticles(articles, ExpirationHours, now).deleted
          /\ expiredAt' = now
          /\ expired' = {articles[id] : id \in DOMAIN articles \
                             DOMAIN DeleteExpiredArticles(articles, ExpirationHours, now).articles}
          /\ UNCHANGED faults
       \/ \* err != nil: logged, return
          /\ Fault
          /\ deleted' = 0
          /\ expired' = {}
          /\ UNCHANGED <<articles, expiredAt>>
    /\ pc' = "wait"
    /\ feedList' = <<>>
    /\ idx' = 1
    /\ skipped' = {}
    /\ attempted' = {}
    /\ outcome' = [id \in FeedIDs |-> "none"]
    /\ UNCHANGED <<now, tickPending, feeds, cfgFeeds, cycle, cycleNow, batch,
                   lookupErr, uniqueArticles, uidx, toggleFeed, listed, lastCall, requests,
                   attemptAt, lastUpsert>>
    /\ UNCHANGED web

(***************************************************************************)
(* The web handlers that write the store.  A failed statement of a handler *)
(* changes nothing and is left out, and so is a request for an article id  *)
(* that has no row (its UPDATE matches nothing).                           *)
(***************************************************************************)
HandleMarkArticleRead(articleID) ==
    /\ requests < MaxRequests
    /\ requests' = requests + 1
    /\ articles' = MarkArticleAsRead(articles, articleID)
    /\ UNCHANGED <<now, tickPending, feeds, cfgFeeds, pc, cycle, schedLocals,
                   toggleFeed, listed, lastCall, faults, history>>
    /\ UNCHANGED web

HandleToggleArticleSaved(articleID) ==
    /\ requests < MaxRequests
    /\ requests' = requests + 1
    /\ articles' = ToggleArticleSaved(articles, articleID)
    /\ UNCHANGED <<now, tickPending, feeds, cfgFeeds, pc, cycle, schedLocals,
                   toggleFeed, listed, lastCall, faults, history>>
    /\ UNCHANGED web

\* action == "toggle": feed, err := storage.GetFeedByID(s.db, feedID)
HandleUpdateFeeds_ToggleGet(feedID) ==
    /\ requests < MaxRequests
    /\ toggleFeed = <<>>
    /\ feedID \in DOMAIN feeds
    /\ requests' = requests + 1
    /\ toggleFeed' = <<feeds[feedID]>>
    /\ UNCHANGED <<now, tickPending, feeds, articles, cfgFeeds, pc, cycle,
                   schedLocals, listed, lastCall, faults, history>>
    /\ UNCHANGED web

\* s.config.Feeds[i].Enabled = enabled for the first i with that ID
SetConfigEnabled(cfg, feedID, enabled) ==
    LET hits == {i \in 1..Len(cfg) : cfg[i].ID = feedID}
    IN  IF hits = {} THEN cfg
        ELSE [cfg EXCEPT ![CHOOSE i \in hits : \A j \in hits : i <= j].Enabled = enabled]

\* feed.Enabled = !feed.Enabled; storage.UpsertFeed(s.db, feed); update config
HandleUpdateFeeds_TogglePut ==
    /\ toggleFeed # <<>>
    /\ feeds' = UpsertFeed(feeds, [toggleFeed[1] EXCEPT !.Enabled = ~toggleFeed[1].Enabled])
    /\ cfgFeeds' = SetConfigEnabled(cfgFeeds, toggleFeed[1].ID, ~toggleFeed[1].Enabled)
    /\ toggleFeed' = <<>>
    /\ UNCHANGED <<now, tickPending, articles, pc, cycle, schedLocals, listed, lastCall,
                   requests, faults, history>>
    /\ UNCHANGED web

\* action == "add": UpsertFeed of a feed with Enabled true and no
\* LastFetchedAt, then append to s.config.Feeds
HandleUpdateFeeds_Add(feedID) ==
    /\ requests < MaxRequests
    /\ Len(cfgFeeds) < MaxCfgFeeds
    /\ requests' = requests + 1
    /\ feeds' = UpsertFeed(feeds, Feed(feedID, TRUE, NULL))
    /\ cfgFeeds' = Append(cfgFeeds, FeedConfig(feedID, TRUE, AddedFeedIntervalMinutes))
    /\ UNCHANGED <<now, tickPending, articles, pc, cycle, schedLocals, toggleFeed, listed, lastCall,
                   faults, history>>
    /\ UNCHANGED web

Next ==
    \/ \E t \in Instants : Advance(t)
    \/ StartScheduler_Tick
    \/ fetchAllFeeds_List
    \/ fetchAllFeeds_Check
    \/ fetchAndStoreFeed_Fetch
    \/ fetchAndStoreFeed_Dedup
    \/ fetchAndStoreFeed_Upsert
    \/ fetchAndStoreFeed_Update
    \/ cleanupExpiredArticles
    \/ \E id \in DOMAIN articles : HandleMarkArticleRead(id)
    \/ \E id \in DOMAIN articles : HandleToggleArticleSaved(id)
    \/ \E id \in FeedIDs : HandleUpdateFeeds_ToggleGet(id)
    \/ HandleUpdateFeeds_TogglePut
    \/ \E id \in FeedIDs : HandleUpdateFeeds_Add(id)

Spec == Init /\ [][Next]_vars

\* a step of the scheduler goroutine between two receives from ticker.C
SchedulerStep ==
    \/ fetchAllFeeds_List
    \/ fetchAllFeeds_Check
    \/ fetchAndStoreFeed_Fetch
    \/ fetchAndStoreFeed_Dedup
    \/ fetchAndStoreFeed_Upsert
    \/ fetchAndStoreFeed_Update
    \/ cleanupExpiredArticles

\* the goroutine keeps running: it is not starved in the middle of a cycle,
\* and it receives a tick that is waiting in ticker.C
FairSpec == Spec /\ WF_vars(SchedulerStep) /\ WF_vars(StartScheduler_Tick)

(***************************************************************************)
(* The store driven without the scheduler: UpsertArticle called with       *)
(* articles of every shape, MarkArticleAsRead, ToggleArticleSaved and      *)
(* HandleIndex's query.  One call is served at a time.                     *)
(***************************************************************************)
\* the first midnight of the clock after its origin
Day0 == MinutesPerDay

\* the times of the queries: a minute before and a minute after the midnight
\* Day0, and the midnights LatestDays and WeekDays after Day0
StoreInstants ==
    {Day0 - 1, Day0 + 1} \cup {Day0 + d * MinutesPerDay : d \in {LatestDays, WeekDays}}

\* the entries upserted: two of feed f1 and one of feed f2
StoreEntries == {<<"f1", "g1">>, <<"f1", "g2">>, <<"f2", "g1">>}

StoreIDs == {GenerateArticleID(FeedURL(e[1]), e[2]) : e \in StoreEntries}

\* version v of an entry differs from the other version in every content
\* field; version 1 is published a minute before Day0, version 2 at Day0,
\* which is later than the time of the fetch when that is Day0 - 1
StoreArticle(e, v, t) ==
    [ID |-> GenerateArticleID(FeedURL(e[1]), e[2]), FeedID |-> e[1],
     Title |-> IF v = 1 THEN "t1" ELSE "t2", URL |-> IF v = 1 THEN "l1" ELSE "l2",
     Summary |-> IF v = 1 THEN "s1" ELSE "s2",
     Content |-> IF v = 1 THEN "c1" ELSE "c2",
     PublishedAt |-> IF v = 1 THEN Day0 - 1 ELSE Day0, FetchedAt |-> t,
     SourceName |-> IF v = 1 THEN FeedName(e[1]) ELSE "renamed",
     Categories |-> IF v = 1 THEN "" ELSE "k",
     IsRead |-> FALSE, IsSaved |-> FALSE]

StoreArticles(t) == {StoreArticle(e, v, t) : e \in StoreEntries, v \in {1, 2}}

Views == {"latest", "today", "week", "saved", "other"}

FeedFilters == {"", "all", "f1"}

ReadFilters == {"all", "unread", "read"}

StoreInit ==
    /\ now \in StoreInstants
    /\ tickPending = FALSE
    /\ feeds = [id \in FeedIDs |-> Feed(id, TRUE, NULL)]
    /\ articles = <<>>
    /\ cfgFeeds = <<FeedConfig("f1", TRUE, 20), FeedConfig("f2", TRUE, NULL)>>
    /\ pc = "serve"
    /\ cycle = 1
    /\ feedList = <<>>
    /\ cycleNow = 0
    /\ idx = 1
    /\ batch = <<>>
    /\ lookupErr = {}
    /\ uniqueArticles = <<>>
    /\ uidx = 1
    /\ toggleFeed = <<>>
    /\ listed = <<>>
    /\ lastCall = <<>>
    /\ requests = 0
    /\ faults = 0
    /\ attemptAt = [id \in FeedIDs |-> NULL]
    /\ outcome = [id \in FeedIDs |-> "none"]
    /\ skipped = {}
    /\ attempted = {}
    /\ lastUpsert = NoUpsert
    /\ expiredAt = NULL
    /\ deleted = 0
    /\ expired = {}
    /\ blocklist = <<>>
    /\ ui = DefaultUI
    /\ rendered = <<>>
    /\ hiddenBefore = {}

\* no call is being served
Idle == listed = <<>> /\ lastCall = <<>> /\ rendered = <<>>

\* the row stored under an id, if any
RowBefore(id) == IF id \in DOMAIN articles THEN <<articles[id]>> ELSE <<>>

\* storage.UpsertArticle(db, article)
UpsertArticle_Call(a) ==
    /\ Idle
    /\ articles' = UpsertArticle(articles, a)
    /\ lastCall' = <<[op |-> "UpsertArticle", ID |-> a.ID, before |-> RowBefore(a.ID)]>>
    /\ UNCHANGED <<now, tickPending, feeds, cfgFeeds, pc, cycle, schedLocals,
                   toggleFeed, listed, requests, faults, history>>
    /\ hiddenBefore' = {}
    /\ UNCHANGED <<blocklist, ui, rendered>>

\* storage.MarkArticleAsRead(db, articleID)
MarkArticleAsRead_Call(articleID) ==
    /\ Idle
    /\ articles' = MarkArticleAsRead(articles, articleID)
    /\ lastCall' = <<[op |-> "MarkArticleAsRead", ID |-> articleID,
                      before |-> RowBefore(articleID)]>>
    /\ UNCHANGED <<now, tickPending, feeds, cfgFeeds, pc, cycle, schedLocals,
                   toggleFeed, listed, requests, faults, history>>
    /\ hiddenBefore' = {}
    /\ UNCHANGED <<blocklist, ui, rendered>>

\* storage.ToggleArticleSaved(db, articleID)
ToggleArticleSaved_Call(articleID) ==
    /\ Idle
    /\ articles' = ToggleArticleSaved(articles, articleID)
    /\ lastCall' = <<[op |-> "ToggleArticleSaved", ID |-> articleID,
                      before |-> RowBefore(articleID)]>>
    /\ UNCHANGED <<now, tickPending, feeds, cfgFeeds, pc, cycle, schedLocals,
                   toggleFeed, listed, requests, faults, history>>
    /\ hiddenBefore' = {}
    /\ UNCHANGED <<blocklist, ui, rendered>>

\* articles, err := storage.ListArticlesByView(s.db, view, feedID, readFilter, limit)
HandleIndex_Query(view, feedID, readFilter, limit) ==
    /\ Idle
    /\ \E result \in ListArticlesByView(articles, view, feedID, readFilter, limit, now) :
          listed' = <<[view |-> view, feedID |-> feedID, readFilter |-> readFilter,
                       limit |-> limit, articles |-> result]>>
    /\ UNCHANGED <<now, tickPending, feeds, articles, cfgFeeds, pc, cycle,
                   schedLocals, toggleFeed, lastCall, requests, faults, history>>
    /\ UNCHANGED web

\* the ids of the articles in a list
IDsOf(arts) == {arts[i].ID : i \in 1..Len(arts)}

\* the call being served returns
Store_Return ==
    /\ ~Idle
    /\ listed' = <<>>
    /\ lastCall' = <<>>
    /\ UNCHANGED <<now, tickPending, feeds, articles, cfgFeeds, pc, cycle,
                   schedLocals, toggleFeed, requests, faults, history>>
    /\ rendered' = <<>>
    /\ hiddenBefore' = IF rendered = <<>> THEN hiddenBefore
                       ELSE IDsOf(listed[1].articles) \ IDsOf(rendered[1].filteredArticles)
    /\ UNCHANGED <<blocklist, ui>>

StoreNext ==
    \/ \E a \in StoreArticles(now) : UpsertArticle_Call(a)
    \/ \E id \in StoreIDs : MarkArticleAsRead_Call(id)
    \/ \E id \in StoreIDs : ToggleArticleSaved_Call(id)
    \/ \E view \in Views, feedID \in FeedFilters, readFilter \in ReadFilters,
          limit \in 1..MaxLimit : HandleIndex_Query(view, feedID, readFilter, limit)
    \/ Store_Return

StoreSpec == StoreInit /\ [][StoreNext]_vars

(***************************************************************************)
(* The web server driven without the scheduler: the front page and the     *)
(* blocklist form, over a store that UpsertArticle fills.  The requests    *)
(* are served one at a time.                                               *)
(***************************************************************************)
\* phrases in the blocklist of the configuration file
MaxPhrases == 2
\* the largest ui.items_per_page of the configuration file
MaxItemsPerPage == 2
\* the width of Go's int in the model, in bits (64 in the build)
IntBits == 8

\* math.MaxInt
MaxInt == 2 ^ (IntBits - 1) - 1

\* the int that an addition or multiplication with the exact result x gives:
\* two's complement wrap-around
WrapInt(x) == ((x + MaxInt + 1) % (2 * (MaxInt + 1))) - (MaxInt + 1)
\* HandleIndex: limit := 300
IndexLimit == 300

\* the articles the web model stores: "Ab" / "cD", "cd" / "" and "x" / "aB"
WebArticle(e, t) ==
    [ID |-> GenerateArticleID(FeedURL(e[1]), e[2]), FeedID |-> e[1],
     Title |-> IF e[1] = "f2" THEN <<"x">>
               ELSE IF e[2] = "g1" THEN <<"A", "b">> ELSE <<"c", "d">>,
     URL |-> "l1",
     Summary |-> IF e[1] = "f2" THEN <<"a", "B">>
                 ELSE IF e[2] = "g1" THEN <<"c", "D">> ELSE <<>>,
     Content |-> "c1", PublishedAt |-> IF e[2] = "g1" THEN Day0 ELSE Day0 - 1,
     FetchedAt |-> t, SourceName |-> FeedName(e[1]), Categories |-> "",
     IsRead |-> FALSE, IsSaved |-> FALSE]

WebArticles(t) == {WebArticle(e, t) : e \in StoreEntries}

\* the phrases a configuration file holds: "aB", " b C ", "bc", "", " ", "CD"
ConfigPhrases ==
    {<<"a", "B">>, <<" ", "b", " ", "C", " ">>, <<"b", "c">>, <<>>, <<" ">>,
     <<"C", "D">>}

\* the phrases the blocklist form sends: " ab", "cd" and " "
FormPhrases == {<<" ", "a", "b">>, <<"c", "d">>, <<" ">>}

\* the view, feed, read and page parameters of a front page request
ViewParams == {"", "week", "front"}

FeedParams == {"", "f1"}

ReadParams == {"", "unread", "seen"}

PageParams == {"", "2", "0", "two", "65"}

\* the number a decimal numeral of the model writes, NULL for other strings
Numeral(str) ==
    CASE str = "0" -> 0
      [] str = "1" -> 1
      [] str = "2" -> 2
      [] str = "65" -> 65
      [] OTHER -> NULL

\* strconv.Atoi on the page parameters of the model: a syntax error for a
\* string that is no numeral, a range error for a number above math.MaxInt
Atoi(str) ==
    IF Numeral(str) = NULL \/ Numeral(str) > MaxInt
    THEN [p |-> 0, err |-> TRUE]
    ELSE [p |-> Numeral(str), err |-> FALSE]

WebInit ==
    /\ now = Day0 + 1
    /\ tickPending = FALSE
    /\ feeds = [id \in FeedIDs |-> Feed(id, TRUE, NULL)]
    /\ articles = <<>>
    /\ cfgFeeds = <<FeedConfig("f1", TRUE, 20), FeedConfig("f2", TRUE, NULL)>>
    /\ pc = "serve"
    /\ cycle = 1
    /\ feedList = <<>>
    /\ cycleNow = 0
    /\ idx = 1
    /\ batch = <<>>
    /\ lookupErr = {}
    /\ uniqueArticles = <<>>
    /\ uidx = 1
    /\ toggleFeed = <<>>
    /\ listed = <<>>
    /\ lastCall = <<>>
    /\ requests = 0
    /\ faults = 0
    /\ attemptAt = [id \in FeedIDs |-> NULL]
    /\ outcome = [id \in FeedIDs |-> "none"]
    /\ skipped = {}
    /\ attempted = {}
    /\ lastUpsert = NoUpsert
    /\ expiredAt = NULL
    /\ deleted = 0
    /\ expired = {}
    /\ blocklist \in UNION {[1..n -> ConfigPhrases] : n \in 0..MaxPhrases}
    /\ ui \in {[DefaultUI EXCEPT !.ItemsPerPage = n] : n \in 1..MaxItemsPerPage}
    /\ rendered = <<>>
    /\ hiddenBefore = {}

\* HandleIndex: the query parameters are normalised, the articles are
\* listed, filtered by the blocklist and cut to the page; start and end are
\* ints
HandleIndex(viewParam, feedParam, readParam, pageStr) ==
    LET viewOrDefault == IF viewParam = "" THEN ui.DefaultView ELSE viewParam
        view == IF viewOrDefault \notin {"latest", "today", "week", "saved"}
                THEN "latest" ELSE viewOrDefault
        feedID == IF feedParam = "" THEN "all" ELSE feedParam
        readOrAll == IF readParam = "" THEN "all" ELSE readParam
        readFilter == IF readOrAll \notin {"all", "read", "unread"}
                      THEN "all" ELSE readOrAll
        page == IF pageStr # "" /\ ~Atoi(pageStr).err /\ Atoi(pageStr).p > 0
                THEN Atoi(pageStr).p ELSE 1
    IN  /\ Idle
        /\ \E result \in ListArticlesByView(articles, view, feedID, readFilter,
                                             IndexLimit, now) :
              LET f == FilterArticles(result, blocklist)
                  n == Len(f.filtered)
                  itemsPerPage == ui.ItemsPerPage
                  start0 == WrapInt((page - 1) * itemsPerPage)
                  end0 == WrapInt(start0 + itemsPerPage)
                  start == IF start0 > n THEN n ELSE start0
                  end == IF end0 > n THEN n ELSE end0
                  \* filteredArticles[start:end] with start < 0 or end < start
                  \* panics; net/http recovers and the page is not served
                  panic == start < n /\ (start < 0 \/ end < start)
              IN  /\ listed' = <<[view |-> view, feedID |-> feedID,
                                   readFilter |-> readFilter, limit |-> IndexLimit,
                                   articles |-> result]>>
                  /\ rendered' =
                        <<[Panic |-> panic,
                           Articles |-> IF start < n /\ ~panic
                                        THEN SubSeq(f.filtered, start + 1, end)
                                        ELSE <<>>,
                           View |-> view, FeedID |-> feedID, ReadFilter |-> readFilter,
                           Feeds |-> ListFeeds(feeds, FALSE),
                           Page |-> page, NextPage |-> page + 1, PrevPage |-> page - 1,
                           HasNextPage |-> end < n, HasPrevPage |-> page > 1,
                           FilteredCount |-> f.filteredCount,
                           ShowFilteredCount |-> ui.ShowFilteredCount,
                           filteredArticles |-> f.filtered]>>
        /\ UNCHANGED <<now, tickPending, feeds, articles, cfgFeeds, pc, cycle,
                       schedLocals, toggleFeed, lastCall, requests, faults, history,
                       blocklist, ui, hiddenBefore>>

\* a blocklist form that also deletes the stored articles the new list hides
HandleUpdateBlocklistPurging(action, form) ==
    LET phrase == TrimSpace(form)
        newList ==
            IF action = "add" /\ phrase # <<>>
            THEN IF \E i \in 1..Len(blocklist) : ToLower(blocklist[i]) = ToLower(phrase)
                 THEN blocklist ELSE Append(blocklist, phrase)
            ELSE IF action = "remove" /\ phrase # <<>>
            THEN SelectSeq(blocklist, LAMBDA p : ToLower(p) # ToLower(phrase))
            ELSE blocklist
        left == {id \in DOMAIN articles : ~ShouldFilter(articles[id], newList)}
    IN  /\ Idle
        /\ Len(newList) <= MaxPhrases
        /\ blocklist' = newList
        /\ articles' = [id \in left |-> articles[id]]
        /\ UNCHANGED <<now, tickPending, feeds, cfgFeeds, pc, cycle,
                       schedLocals, toggleFeed, listed, lastCall, requests, faults,
                       history, ui, rendered, hiddenBefore>>

\* HandleUpdateBlocklist: "add" appends the trimmed phrase unless the list
\* holds it in some letter case, "remove" drops every entry equal to it in
\* some letter case; config.SaveConfig follows and changes nothing here
HandleUpdateBlocklist(action, form) ==
    LET phrase == TrimSpace(form)
        lowerPhrase == ToLower(phrase)
        exists == \E i \in 1..Len(blocklist) : ToLower(blocklist[i]) = lowerPhrase
        newList ==
            IF action = "add" /\ phrase # <<>>
            THEN IF exists THEN blocklist ELSE Append(blocklist, phrase)
            ELSE IF action = "remove" /\ phrase # <<>>
            THEN SelectSeq(blocklist, LAMBDA p : ToLower(p) # lowerPhrase)
            ELSE blocklist
    IN  /\ Idle
        /\ Len(newList) <= MaxPhrases
        /\ blocklist' = newList
        /\ UNCHANGED <<now, tickPending, feeds, articles, cfgFeeds, pc, cycle,
                       schedLocals, toggleFeed, listed, lastCall, requests, faults,
                       history, ui, rendered, hiddenBefore>>

WebNext ==
    \/ \E a \in WebArticles(now) : UpsertArticle_Call(a)
    \/ \E viewParam \in ViewParams, feedParam \in FeedParams, readParam \in ReadParams,
          pageStr \in PageParams : HandleIndex(viewParam, feedParam, readParam, pageStr)
    \/ \E action \in {"add", "remove", "clear"}, form \in FormPhrases :
          HandleUpdateBlocklist(action, form)
    \/ Store_Return

WebSpec == WebInit /\ [][WebNext]_vars

(***************************************************************************)
(* The parser driven alone: ParseFeed called with documents of one entry   *)
(* of every shape, for a feed whose URL holds the "|" of hashArticleID.    *)
(***************************************************************************)
\* ParseFeed calls explored
MaxParses == 2

\* the (feed URL, feed id) pairs ParseFeed is called for
ParseFeeds == {<<"u1", "f1">>, <<"u1|g1", "f2">>}

\* the entries: with and without GUID, description, content, published and
\* updated time; an entry can be dated at the zero time
ParseItems ==
    {[GUID |-> g, Link |-> l, Title |-> "t1", Description |-> d, Content |-> c,
      PublishedParsed |-> p, UpdatedParsed |-> u] :
        g \in {"", "g2", "g1|g2"}, l \in {"l", "g2"}, d \in {"", "d"}, c \in {"", "c"},
        p \in {NULL, ZeroTime, Day0}, u \in {NULL, Day0 - 1}}

ParseInit ==
    /\ now = Day0 + 1
    /\ tickPending = FALSE
    /\ feeds = [id \in FeedIDs |-> Feed(id, TRUE, NULL)]
    /\ articles = <<>>
    /\ cfgFeeds = <<FeedConfig("f1", TRUE, 20), FeedConfig("f2", TRUE, NULL)>>
    /\ pc = "parse"
    /\ cycle = 1
    /\ feedList = <<>>
    /\ cycleNow = 0
    /\ idx = 1
    /\ batch = <<>>
    /\ lookupErr = {}
    /\ uniqueArticles = <<>>
    /\ uidx = 1
    /\ toggleFeed = <<>>
    /\ listed = <<>>
    /\ lastCall = <<>>
    /\ requests = 0
    /\ faults = 0
    /\ attemptAt = [id \in FeedIDs |-> NULL]
    /\ outcome = [id \in FeedIDs |-> "none"]
    /\ skipped = {}
    /\ attempted = {}
    /\ lastUpsert = NoUpsert
    /\ expiredAt = NULL
    /\ deleted = 0
    /\ expired = {}
    /\ blocklist = <<>>
    /\ ui = DefaultUI
    /\ rendered = <<>>
    /\ hiddenBefore = {}

\* articles, err := ParseFeed(data, feed.URL, feed.ID, feed.Name)
ParseFeed_Call(items, feedURL, feedID) ==
    /\ Len(lastCall) < MaxParses
    /\ batch' = ParseFeed(items, feedURL, feedID, FeedName(feedID), now)
    /\ lastCall' = Append(lastCall,
                          [op |-> "ParseFeed", items |-> items, feedURL |-> feedURL,
                           articles |-> ParseFeed(items, feedURL, feedID,
                                                  FeedName(feedID), now)])
    /\ UNCHANGED <<now, tickPending, feeds, articles, cfgFeeds, pc, cycle, feedList,
                   cycleNow, idx, lookupErr, uniqueArticles, uidx, toggleFeed, listed,
                   requests, faults, history, web>>

ParseNext ==
    \E item \in ParseItems, feed \in ParseFeeds : ParseFeed_Call(<<item>>, feed[1], feed[2])

ParseSpec == ParseInit /\ [][ParseNext]_vars

(***************************************************************************)
(* The scheduler three days after its startup cycle: the rows that cycle   *)
(* stored at time 0 are older than the expiry age, and the user, who has   *)
(* read and saved them since, toggles the saved flag while two more cycles *)
(* run.  cycle counts the cycles from here on.                             *)
(***************************************************************************)
\* one hour after the rows of the startup cycle reached the expiry age
ExpiryStart == (ExpirationHours + 1) * MinutesPerHour

\* the times of the cycle after the next: one and two default intervals on
ExpiryInstants == {ExpiryStart + k * DefaultIntervalMinutes : k \in {1, 2}}

\* the row the startup cycle stored for an entry, read and saved since
ExpiryRow(feedID, guid, title) ==
    [InsertedRow(ParseItem(Item(guid, title), FeedURL(feedID), feedID,
                           FeedName(feedID), 0))
        EXCEPT !.IsRead = 1, !.IsSaved = 1]

\* the table of a set of such rows
ExpiryTable(rows) ==
    [id \in {r.ID : r \in rows} |-> CHOOSE r \in rows : r.ID = id]

\* what the startup cycle left: the entry of feed f2, or two entries of feed
\* f1 that one batch brought under one title
ExpiryStores ==
    {ExpiryTable({ExpiryRow("f2", "g1", "t1")}),
     ExpiryTable({ExpiryRow("f1", "g1", "t1"), ExpiryRow("f1", "g2", "t1")})}

ExpiryInit ==
    /\ now = ExpiryStart
    /\ tickPending = TRUE
    /\ feeds = [id \in FeedIDs |-> Feed(id, TRUE, 0)]
    /\ articles \in ExpiryStores
    /\ cfgFeeds = <<FeedConfig("f1", TRUE, 20), FeedConfig("f2", TRUE, NULL)>>
    /\ pc = "wait"
    /\ cycle = 0
    /\ feedList = <<>>
    /\ cycleNow = 0
    /\ idx = 1
    /\ batch = <<>>
    /\ lookupErr = {}
    /\ uniqueArticles = <<>>
    /\ uidx = 1
    /\ toggleFeed = <<>>
    /\ listed = <<>>
    /\ lastCall = <<>>
    /\ requests = 0
    /\ faults = 0
    /\ attemptAt = [id \in FeedIDs |-> 0]
    /\ outcome = [id \in FeedIDs |-> "none"]
    /\ skipped = {}
    /\ attempted = {}
    /\ lastUpsert = NoUpsert
    /\ expiredAt = 0
    /\ deleted = 0
    /\ expired = {}
    /\ blocklist = <<>>
    /\ ui = DefaultUI
    /\ rendered = <<>>
    /\ hiddenBefore = {}

ExpiryNext ==
    \/ \E t \in ExpiryInstants : Advance(t)
    \/ StartScheduler_Tick
    \/ fetchAllFeeds_List
    \/ fetchAllFeeds_Check
    \/ fetchAndStoreFeed_Fetch
    \/ fetchAndStoreFeed_Dedup
    \/ fetchAndStoreFeed_Upsert
    \/ fetchAndStoreFeed_Update
    \/ cleanupExpiredArticles
    \/ \E id \in DOMAIN articles : ToggleArticleSaved_Call(id)
    \/ Store_Return

ExpirySpec == ExpiryInit /\ [][ExpiryNext]_vars

(***************************************************************************)
(* Properties.                                                             *)
(***************************************************************************)
\* the hours of age, in minutes
ExpirationMinutes == ExpirationHours * MinutesPerHour

\* the rows that are stored before and after a step
Kept == DOMAIN articles \cap DOMAIN articles'

\* C1: only MarkArticleAsRead and ToggleArticleSaved change is_read and
\* is_saved of a stored article; in particular no UpsertArticle of a fetch
\* cycle does.
C1_OnlyUserActionsChangeFlags ==
    [][\/ \E id \in DOMAIN articles :
             HandleMarkArticleRead(id) \/ HandleToggleArticleSaved(id)
       \/ \A id \in Kept :
             /\ articles'[id].IsRead = articles[id].IsRead
             /\ articles'[id].IsSaved = articles[id].IsSaved]_vars

\* C2: no step removes an article that is saved; in particular
\* DeleteExpiredArticles leaves it stored, whatever its age.
C2_SavedNeverRemoved ==
    [][\A id \in DOMAIN articles :
          articles[id].IsSaved = 1 =>
             id \in DOMAIN articles' /\ articles'[id].FetchedAt = articles[id].FetchedAt]_vars

\* C2 witness: DeleteExpiredArticles has run while a saved article was older
\* than the expiry age, and the article is still stored.
C2_Witness ==
    /\ expiredAt # NULL
    /\ \E id \in DOMAIN articles :
          /\ articles[id].IsSaved = 1
          /\ expiredAt - articles[id].FetchedAt > ExpirationMinutes

\* C3: after a fetch attempt that ended in a fetch error or a parse error the
\* feed's last_fetched_at is the time of that attempt.
C3_FailedAttemptSetsLastFetched ==
    \A f \in FeedIDs :
       (f \in DOMAIN feeds /\ outcome[f] \in {"fetch error", "parse error"})
          => feeds[f].LastFetchedAt = attemptAt[f]

\* C4: two consecutive fetch attempts for a feed are at least the feed's
\* refresh interval apart.
C4_AttemptsOneIntervalApart ==
    [][\A f \in FeedIDs :
          (attemptAt[f] # NULL /\ attemptAt'[f] # attemptAt[f])
             => attemptAt'[f] - attemptAt[f] >= FeedInterval(cfgFeeds, f)]_vars

\* C5: a row keeps its fetched_at for as long as it is stored, whatever
\* fetched_at an UpsertArticle of its id carries.
C5_FetchedAtPreserved ==
    [][\A id \in Kept : articles'[id].FetchedAt = articles[id].FetchedAt]_vars

\* C5 witness: the last UpsertArticle hit a stored id with another fetched_at
\* than the stored one, and the row still has the stored one.
C5_Witness ==
    /\ lastUpsert.conflict
    /\ lastUpsert.FetchedAt # lastUpsert.stored
    /\ lastUpsert.ID \in DOMAIN articles
    /\ articles[lastUpsert.ID].FetchedAt = lastUpsert.stored

\* some stored row has this title
TitleStored(title) == \E id \in DOMAIN articles : articles[id].Title = title

\* the entries of seq at the positions in keep, in order
Pick(seq, keep) ==
    LET F[i \in 0..Len(seq)] ==
            IF i = 0 THEN <<>>
            ELSE IF i \in keep THEN Append(F[i - 1], seq[i]) ELSE F[i - 1]
    IN  F[Len(seq)]

\* the title filter has run and no entry of the batch has been written yet
GuardDone == pc \in {"upsert", "update"} /\ uidx = 1

\* the step is one pass of the upsert loop
UpsertPass == pc = "upsert" /\ uidx' # uidx

\* C6 as stated: no entry whose title is the title of a stored row goes on
\* to UpsertArticle.
C6_NoStoredTitlePassesGuard ==
    GuardDone => \A i \in 1..Len(uniqueArticles) : ~TitleStored(uniqueArticles[i].Title)

\* once the guard has run, the entries that go on to UpsertArticle are
\* exactly those whose title lookup failed or found no stored row
GuardKeptTheRightEntries ==
    GuardDone =>
       uniqueArticles =
          Pick(batch, {i \in 1..Len(batch) :
                          i \in lookupErr \/ ~TitleStored(batch[i].Title)})

\* C6 amended: the entries that go on to UpsertArticle are exactly those
\* whose title lookup failed or found no stored row with their title, and a
\* pass of the upsert loop writes no row but that of its own entry.
C6_TitleGuardWhenLookupSucceeds ==
    [][/\ GuardKeptTheRightEntries'
       /\ UpsertPass =>
             \A id \in DOMAIN articles' :
                (id \notin DOMAIN articles \/ articles'[id] # articles[id])
                   => id = uniqueArticles[uidx].ID]_vars

\* C6 witness: the guard has dropped an entry of one feed whose title is
\* stored for an article of another feed.
C6_Witness ==
    /\ GuardDone
    /\ \E i \in 1..Len(batch) :
          /\ i \notin lookupErr
          /\ \E id \in DOMAIN articles :
                /\ articles[id].Title = batch[i].Title
                /\ articles[id].FeedID # batch[i].FeedID
          /\ \A k \in 1..Len(uniqueArticles) : uniqueArticles[k].Title # batch[i].Title

\* the step is a DeleteExpiredArticles that did not fail
ExpireRan == pc = "cleanup" /\ pc' = "wait" /\ faults' = faults

\* C7: DeleteExpiredArticles(72) removes exactly the unsaved rows fetched
\* more than 72 hours before now, leaves the others as they are and returns
\* the number of rows removed.
C7_ExpireRemovesExactlyTheOld ==
    [][ExpireRan =>
          /\ DOMAIN articles' =
                {id \in DOMAIN articles :
                    ~(articles[id].IsSaved = 0
                      /\ now - articles[id].FetchedAt > ExpirationMinutes)}
          /\ \A id \in DOMAIN articles' : articles'[id] = articles[id]
          /\ deleted' = Cardinality(DOMAIN articles \ DOMAIN articles')]_vars

\* C7 witness: the last DeleteExpiredArticles removed a row and kept an
\* unsaved one.
C7_Witness ==
    /\ pc = "wait"
    /\ expiredAt = now
    /\ deleted >= 1
    /\ \E id \in DOMAIN articles : articles[id].IsSaved = 0

\* C8: when the fetch phase of a cycle ends, every feed of the cycle's list
\* has been dealt with: skipped as not due, or fetched - whatever failed for
\* the feeds before it.
C8_EveryListedFeedIsProcessed ==
    (pc = "cleanup" /\ feedList # <<>>)
       => {feedList[i].ID : i \in 1..Len(feedList)} = skipped \cup attempted

\* C8 witness: in one cycle a feed failed and a later feed was fetched and
\* stored.
C8_Witness ==
    /\ pc = "cleanup"
    /\ outcome["f1"] \in {"fetch error", "parse error", "update error"}
    /\ outcome["f2"] = "ok"
    /\ \E id \in DOMAIN articles :
          articles[id].FeedID = "f2" /\ articles[id].FetchedAt = cycleNow

\* the refresh interval configured for a feed, or 10 minutes
ConfiguredInterval(feedID) ==
    LET own == SelectSeq(cfgFeeds,
                  LAMBDA c : c.ID = feedID /\ c.RefreshIntervalMinutes # NULL)
    IN  IF Len(own) = 0 THEN 10 ELSE own[1].RefreshIntervalMinutes

\* the step is the due gate deciding about feedList[idx]
GateDecides == pc = "check" /\ (pc' # "check" \/ idx' # idx)

\* C9: the gate sends a listed feed to the fetch if and only if its
\* last_fetched_at is null or at least its interval before the cycle's time;
\* a feed it skips changes nothing in the store.
C9_DueGate ==
    [][GateDecides =>
          /\ (pc' = "fetch") <=>
                (\/ feedList[idx].LastFetchedAt = NULL
                 \/ cycleNow - feedList[idx].LastFetchedAt
                       >= ConfiguredInterval(feedList[idx].ID))
          /\ pc' # "fetch" => UNCHANGED <<feeds, articles>>]_vars

\* C9 witness: a cycle 10 minutes after the first skipped the feed with a
\* configured interval of 20 minutes and fetched the feed with none.
C9_Witness ==
    /\ pc = "cleanup"
    /\ cycleNow = 10
    /\ "f1" \in skipped
    /\ "f2" \in attempted
    /\ attemptAt["f1"] = 0

\* C10: a stored last_fetched_at never becomes earlier and never returns to
\* null.
C10_LastFetchedOnlyAdvances ==
    [][\A f \in DOMAIN feeds :
          feeds[f].LastFetchedAt # NULL =>
             /\ f \in DOMAIN feeds'
             /\ feeds'[f].LastFetchedAt # NULL
             /\ feeds'[f].LastFetchedAt >= feeds[f].LastFetchedAt]_vars

\* the entry identifiers a feed serves: the GUID, or the link when it is empty
EntryIdentifiers(feedID) ==
    {IF i.GUID = "" THEN i.Link ELSE i.GUID : i \in RemoteItems(feedID)}

\* the stored rows of a feed
RowsOfFeed(feedID) == {id \in DOMAIN articles : articles[id].FeedID = feedID}

\* every stored id is the id of one entry of the row's feed, so a feed has
\* no more rows than entries
OneRowPerEntry ==
    \A f \in FeedIDs :
       /\ \A id \in RowsOfFeed(f) :
             /\ articles[id].ID = id
             /\ \E g \in EntryIdentifiers(f) : id = GenerateArticleID(FeedURL(f), g)
       /\ Cardinality(RowsOfFeed(f)) <= Cardinality(EntryIdentifiers(f))

\* C11: the store holds at most one row per (feed URL, entry identifier),
\* and an UpsertArticle for an entry that is already stored adds no row.
C11_RefetchNeverDuplicates ==
    [][/\ OneRowPerEntry'
       /\ (UpsertPass /\ uniqueArticles[uidx].ID \in DOMAIN articles)
             => DOMAIN articles' = DOMAIN articles]_vars

\* C11 witness: in the second cycle an entry that was stored by the first
\* has been upserted again, and its feed still has one row.
C11_Witness ==
    /\ cycle = 2
    /\ lastUpsert.conflict
    /\ lastUpsert.stored < lastUpsert.FetchedAt
    /\ Cardinality(RowsOfFeed("f1")) = 1

\* the content fields of a row or an article
ContentFields(r) ==
    <<r.Title, r.URL, r.Summary, r.Content, r.PublishedAt, r.SourceName, r.Categories>>

\* C12: UpsertArticle of an id that is stored replaces title, url, summary,
\* content, published_at, source_name and categories by the incoming values
\* and keeps id and feed_id; of an id that is not stored it inserts the
\* article as given; no other row changes.
C12_UpsertRefreshesContent ==
    [][\A a \in StoreArticles(now) :
          UpsertArticle_Call(a) =>
             /\ DOMAIN articles' = DOMAIN articles \cup {a.ID}
             /\ \A id \in DOMAIN articles \ {a.ID} : articles'[id] = articles[id]
             /\ ContentFields(articles'[a.ID]) = ContentFields(a)
             /\ articles'[a.ID].ID = a.ID
             /\ IF a.ID \in DOMAIN articles
                THEN articles'[a.ID].FeedID = articles[a.ID].FeedID
                ELSE /\ articles'[a.ID].FeedID = a.FeedID
                     /\ articles'[a.ID].FetchedAt = a.FetchedAt
                     /\ articles'[a.ID].IsRead = 0
                     /\ articles'[a.ID].IsSaved = 0]_vars

\* C12 witness: UpsertArticle has hit a stored row that differed from the
\* incoming article in each of the seven content fields, and the row now
\* has the incoming ones.
C12_Witness ==
    /\ lastCall # <<>>
    /\ lastCall[1].op = "UpsertArticle"
    /\ lastCall[1].before # <<>>
    /\ \A k \in 1..7 :
          ContentFields(lastCall[1].before[1])[k] # ContentFields(articles[lastCall[1].ID])[k]
    /\ articles[lastCall[1].ID].Title = "t2"
    /\ articles[lastCall[1].ID].Categories = "k"

\* the scheduler is in the middle of a cycle
InCycle == pc # "wait"

\* the step ends a cycle: the scheduler goes back to the ticker
CycleEnds == pc # "wait" /\ pc' = "wait"

\* the step begins a cycle
CycleBegins == pc # "list" /\ pc' = "list"

\* C13: a cycle ends only by a DeleteExpiredArticles(72) run, whatever the
\* fetch phase did, the next cycle begins only after it, and every cycle
\* that began does get to it.
C13_ExpireAfterEveryCycle ==
    /\ [][CycleEnds =>
             /\ pc = "cleanup"
             /\ \/ faults' = faults + 1 /\ articles' = articles
                \/ /\ articles' = DeleteExpiredArticles(articles, 72, now).articles
                   /\ expiredAt' = now]_vars
    /\ [][CycleBegins => pc = "wait" /\ cycle' = cycle + 1]_vars
    /\ InCycle ~> (pc = "wait")

\* C13 witness: the first cycle's ListFeeds failed, so that no feed was
\* tried, and DeleteExpiredArticles has run all the same.
C13_Witness ==
    /\ cycle = 1
    /\ pc = "wait"
    /\ expiredAt = now
    /\ faults = 1
    /\ \A f \in FeedIDs : attemptAt[f] = NULL /\ feeds[f].Enabled

\* C14: wherever a failure leaves the scheduler it has a next step: in the
\* middle of a cycle a step of the cycle, and at the ticker the receive of a
\* waiting tick, which does start the next cycle whatever failed before.
C14_SchedulerSurvivesErrors ==
    /\ [](InCycle => ENABLED SchedulerStep)
    /\ []((pc = "wait" /\ tickPending /\ cycle < MaxCycles) => ENABLED StartScheduler_Tick)
    /\ \A c \in 1..(MaxCycles - 1) :
          (cycle = c /\ pc = "wait" /\ tickPending) ~> (cycle = c + 1 /\ pc = "list")

\* C14 witness: a feed failed in the first cycle and again in the second,
\* and the scheduler is back at the ticker.
C14_Witness ==
    /\ cycle = 2
    /\ pc = "wait"
    /\ faults = 1
    /\ requests = 0
    /\ attemptAt["f1"] = now
    /\ now > 0
    /\ feeds["f1"].LastFetchedAt = NULL
    /\ feeds["f2"].LastFetchedAt = 0

\* a query has been answered; its request and result are in listed[1]
Answered == listed # <<>>

\* C15: in every result of ListArticlesByView no read article comes before
\* an unread one, and of two articles with the same read status the later
\* one in the result is not published after the earlier one.
C15_UnreadFirstThenNewestFirst ==
    Answered =>
       LET r == listed[1].articles
       IN  \A i, j \in 1..Len(r) :
              i < j =>
                 /\ ~(r[i].IsRead /\ ~r[j].IsRead)
                 /\ r[i].IsRead = r[j].IsRead => r[i].PublishedAt >= r[j].PublishedAt

\* C15 witness: a result lists an unread article before a read article that
\* was published later.
C15_Witness ==
    /\ Answered
    /\ Len(listed[1].articles) = 2
    /\ ~listed[1].articles[1].IsRead
    /\ listed[1].articles[2].IsRead
    /\ listed[1].articles[1].PublishedAt < listed[1].articles[2].PublishedAt

\* the start of the window of a view at the time of the query, in minutes:
\* local midnight, 7 days back or 3 days back
WindowStart(view) ==
    CASE view = "today" -> (now \div 1440) * 1440
      [] view = "week" -> now - 7 * 1440
      [] view = "latest" -> now - 3 * 1440

\* the row passes the feed filter and the read filter of the query
PassesFilters(r, q) ==
    /\ q.feedID \in {"", "all"} \/ r.FeedID = q.feedID
    /\ q.readFilter = "all" \/ (q.readFilter = "unread" /\ r.IsRead = 0)
                            \/ (q.readFilter = "read" /\ r.IsRead = 1)

\* the ids of the articles of the result
ListedIDs == {listed[1].articles[i].ID : i \in 1..Len(listed[1].articles)}

\* the result is the rows of the set ids, or limit of them when there are more
ListsUpToLimit(ids) ==
    /\ ListedIDs \subseteq ids
    /\ Cardinality(ListedIDs) = Len(listed[1].articles)
    /\ Len(listed[1].articles) =
          IF Cardinality(ids) < listed[1].limit THEN Cardinality(ids) ELSE listed[1].limit

\* C16: for the views today, week and latest, no article of the result is
\* published before the start of the view's window, and the result is, up
\* to the limit, every stored article published at or after that start that
\* passes the feed and read filters.
C16_ViewWindows ==
    (Answered /\ listed[1].view \in {"today", "week", "latest"}) =>
       /\ \A i \in 1..Len(listed[1].articles) :
             listed[1].articles[i].PublishedAt >= WindowStart(listed[1].view)
       /\ ListsUpToLimit({id \in DOMAIN articles :
                             /\ articles[id].PublishedAt >= WindowStart(listed[1].view)
                             /\ PassesFilters(articles[id], listed[1])})

\* C16 witness: a "today" query a minute after midnight lists an article
\* published at that midnight and leaves out a stored one published a minute
\* before it.
C16_Witness ==
    /\ Answered
    /\ listed[1].view = "today"
    /\ listed[1].feedID = "all"
    /\ listed[1].readFilter = "all"
    /\ \E i \in 1..Len(listed[1].articles) : listed[1].articles[i].PublishedAt = now - 1
    /\ \E id \in DOMAIN articles \ ListedIDs : articles[id].PublishedAt = now - 2

\* the stored articles that are saved
SavedIDs == {id \in DOMAIN articles : articles[id].IsSaved = 1}

\* C17 as stated: the "saved" view, asked without a feed or read filter,
\* returns every saved article and no unsaved one.
C17_SavedViewListsEverySaved ==
    (/\ Answered
     /\ listed[1].view = "saved"
     /\ listed[1].feedID \in {"", "all"}
     /\ listed[1].readFilter = "all") => ListedIDs = SavedIDs

\* C17 amended: the "saved" view returns saved articles only and, up to the
\* limit, every saved article that passes the feed and read filters,
\* whatever its published_at.
C17_SavedViewUpToLimit ==
    (Answered /\ listed[1].view = "saved") =>
       /\ \A i \in 1..Len(listed[1].articles) : listed[1].articles[i].IsSaved
       /\ ListsUpToLimit({id \in SavedIDs : PassesFilters(articles[id], listed[1])})

\* C17 witness: a "saved" query lists a saved article published more than
\* 7 days before the query and leaves out a stored unsaved one.
C17_Witness ==
    /\ Answered
    /\ listed[1].view = "saved"
    /\ \E i \in 1..Len(listed[1].articles) :
          listed[1].articles[i].PublishedAt < now - 7 * 1440
    /\ \E id \in DOMAIN articles \ ListedIDs : articles[id].IsSaved = 0

\* the stored articles inside the time window or the saved set of the query
InView(q) ==
    {id \in DOMAIN articles :
        IF q.view = "saved" THEN articles[id].IsSaved = 1
        ELSE articles[id].PublishedAt >=
                WindowStart(IF q.view \in {"today", "week"} THEN q.view ELSE "latest")}

\* C18: with a feed id other than "" and "all" the result holds articles of
\* that feed only; with readFilter "unread" unread articles only, with "read"
\* read articles only; and the result is, up to the limit, every article of
\* the view that these two filters let through - with "all" and no feed id,
\* every article of the view.
C18_FeedAndReadFilters ==
    Answered =>
       /\ \A i \in 1..Len(listed[1].articles) :
             /\ listed[1].feedID \notin {"", "all"}
                   => listed[1].articles[i].FeedID = listed[1].feedID
             /\ listed[1].readFilter = "unread" => ~listed[1].articles[i].IsRead
             /\ listed[1].readFilter = "read" => listed[1].articles[i].IsRead
       /\ ListsUpToLimit({id \in InView(listed[1]) :
             /\ listed[1].feedID \notin {"", "all"} => articles[id].FeedID = listed[1].feedID
             /\ listed[1].readFilter = "unread" => articles[id].IsRead = 0
             /\ listed[1].readFilter = "read" => articles[id].IsRead = 1})

\* C18 witness: a query for the unread articles of feed f1 lists one, while
\* a read article of f1 and an article of f2 are in the view too.
C18_Witness ==
    /\ Answered
    /\ listed[1].feedID = "f1"
    /\ listed[1].readFilter = "unread"
    /\ Len(listed[1].articles) = 1
    /\ \E id \in InView(listed[1]) : articles[id].FeedID = "f1" /\ articles[id].IsRead = 1
    /\ \E id \in InView(listed[1]) : articles[id].FeedID = "f2"

\* the fields of a row other than the two flags
OtherFields(r) ==
    <<r.ID, r.FeedID, r.Title, r.URL, r.Summary, r.Content, r.PublishedAt,
      r.FetchedAt, r.SourceName, r.Categories>>

\* C19: ToggleArticleSaved(id) flips isSaved of the article with that id and
\* changes nothing else: its isRead and its other fields are as before, every
\* other article is as before, and no article appears or disappears.
C19_ToggleSavedFlipsOnlySaved ==
    [][\A articleID \in StoreIDs :
          ToggleArticleSaved_Call(articleID) =>
             /\ DOMAIN articles' = DOMAIN articles
             /\ \A id \in DOMAIN articles :
                   IF id = articleID
                   THEN /\ articles'[id].IsSaved = 1 - articles[id].IsSaved
                        /\ articles'[id].IsRead = articles[id].IsRead
                        /\ OtherFields(articles'[id]) = OtherFields(articles[id])
                   ELSE articles'[id] = articles[id]]_vars

\* C19 witness: the call toggled a saved and read article, which is now
\* unsaved and still read, next to another article that is still saved.
C19_Witness ==
    /\ lastCall # <<>>
    /\ lastCall[1].op = "ToggleArticleSaved"
    /\ lastCall[1].before # <<>>
    /\ lastCall[1].before[1].IsSaved = 1
    /\ lastCall[1].before[1].IsRead = 1
    /\ articles[lastCall[1].ID].IsSaved = 0
    /\ articles[lastCall[1].ID].IsRead = 1
    /\ \E id \in DOMAIN articles : id # lastCall[1].ID /\ articles[id].IsSaved = 1

\* C20: MarkArticleAsRead(id) sets isRead on the article with that id only
\* and leaves its isSaved, fetchedAt and content fields, and every other
\* article, unchanged; it is idempotent: a call on an article that is read
\* already changes nothing, and so does a second call after any call.
C20_MarkReadOnlyThatArticle ==
    [][\A articleID \in StoreIDs :
          MarkArticleAsRead_Call(articleID) =>
             /\ DOMAIN articles' = DOMAIN articles
             /\ \A id \in DOMAIN articles :
                   IF id = articleID
                   THEN /\ articles'[id].IsRead = 1
                        /\ articles'[id].IsSaved = articles[id].IsSaved
                        /\ OtherFields(articles'[id]) = OtherFields(articles[id])
                   ELSE articles'[id] = articles[id]
             /\ (articleID \in DOMAIN articles /\ articles[articleID].IsRead = 1)
                   => articles' = articles
             /\ MarkArticleAsRead(articles', articleID) = articles']_vars

\* C20 witness: the call came for a saved article that was read already and
\* is still saved and read, next to an article that is still unread.
C20_Witness ==
    /\ lastCall # <<>>
    /\ lastCall[1].op = "MarkArticleAsRead"
    /\ lastCall[1].before # <<>>
    /\ lastCall[1].before[1].IsRead = 1
    /\ lastCall[1].before[1].IsSaved = 1
    /\ articles[lastCall[1].ID] = lastCall[1].before[1]
    /\ \E id \in DOMAIN articles : id # lastCall[1].ID /\ articles[id].IsRead = 0

\* a front page is being served
Rendered == rendered # <<>>

\* letters c and d are the same but for their case
SameLetter(c, d) ==
    \/ c = d
    \/ \E k \in 1..Len(UpperLetters) : {c, d} = {UpperLetters[k], LowerLetters[k]}

\* phrase occurs in text, letter case aside
OccursIn(phrase, text) ==
    \E k \in 0..(Len(text) - Len(phrase)) :
        \A j \in 1..Len(phrase) : SameLetter(text[k + j], phrase[j])

\* some phrase of the list, trimmed, is not empty and occurs in text
Blocked(text, phrases) ==
    \E i \in 1..Len(phrases) :
        /\ TrimSpace(phrases[i]) # <<>>
        /\ OccursIn(TrimSpace(phrases[i]), text)

\* C21 as stated: a listed article is filtered if and only if some phrase
\* that is not empty after trimming occurs, letter case aside, in the
\* concatenation of its title and its summary.
C21_MatchesTitleSummaryConcatenation ==
    Rendered =>
       \A i \in 1..Len(listed[1].articles) :
          LET a == listed[1].articles[i]
          IN  a.ID \notin IDsOf(rendered[1].filteredArticles)
                 <=> Blocked(a.Title \o a.Summary, blocklist)

\* C21: a listed article is filtered if and only if some phrase that is not
\* empty after trimming occurs, letter case aside, in its title, one space
\* and its summary; a list of empty and whitespace-only phrases filters
\* nothing.
C21_BlocklistMatchRule ==
    Rendered =>
       /\ \A i \in 1..Len(listed[1].articles) :
             LET a == listed[1].articles[i]
             IN  a.ID \notin IDsOf(rendered[1].filteredArticles)
                    <=> Blocked(a.Title \o <<" ">> \o a.Summary, blocklist)
       /\ (\A i \in 1..Len(blocklist) : \A j \in 1..Len(blocklist[i]) :
                blocklist[i][j] \in WhiteSpace)
             => rendered[1].filteredArticles = listed[1].articles

\* C21 witness: with the phrases " " and " b C " the article "Ab" / "cD" is
\* filtered and the article "cd" / "" is kept.
C21_Witness ==
    /\ Rendered
    /\ blocklist = << <<" ">>, <<" ", "b", " ", "C", " ">> >>
    /\ \E i \in 1..Len(listed[1].articles) :
          /\ listed[1].articles[i].Title = <<"A", "b">>
          /\ listed[1].articles[i].ID \notin IDsOf(rendered[1].filteredArticles)
    /\ \E i \in 1..Len(rendered[1].filteredArticles) :
          rendered[1].filteredArticles[i].Title = <<"c", "d">>

\* C22: FilterArticles partitions its input: the kept list is the input
\* without the articles that match the blocklist, in input order, the count
\* is the number of matching articles, and kept and count add up to the
\* length of the input.
C22_FilterArticlesPartitions ==
    Rendered =>
       /\ rendered[1].filteredArticles
             = SelectSeq(listed[1].articles, LAMBDA a : ~ShouldFilter(a, blocklist))
       /\ rendered[1].FilteredCount
             = Cardinality({i \in 1..Len(listed[1].articles) :
                              ShouldFilter(listed[1].articles[i], blocklist)})
       /\ Len(rendered[1].filteredArticles) + rendered[1].FilteredCount
             = Len(listed[1].articles)

\* C22 witness: of three listed articles the first is filtered and the
\* other two are kept.
C22_Witness ==
    /\ Rendered
    /\ Len(listed[1].articles) = 3
    /\ rendered[1].FilteredCount = 1
    /\ ShouldFilter(listed[1].articles[1], blocklist)
    /\ rendered[1].filteredArticles = SubSeq(listed[1].articles, 2, 3)

\* C23: the blocklist filter never changes the store.  A step that changes
\* the phrase list and a step that serves the front page leave every stored
\* article and feed as it was; the front page is filtered by the phrase
\* list as it is then; and an article that the front page before left out is
\* shown by the next one, with no store write between them, as soon as no
\* phrase of the list matches it.
C23_FilterNeverChangesStore ==
    /\ [][blocklist' # blocklist => articles' = articles /\ feeds' = feeds]_vars
    /\ [][(~Rendered /\ Rendered') =>
             /\ articles' = articles /\ feeds' = feeds
             /\ rendered'[1].filteredArticles
                   = SelectSeq(listed'[1].articles,
                               LAMBDA a : ~ShouldFilter(a, blocklist'))
             /\ \A id \in hiddenBefore :
                   (/\ id \in IDsOf(listed'[1].articles)
                    /\ ~Blocked(articles[id].Title \o <<" ">> \o articles[id].Summary,
                                blocklist))
                     => id \in IDsOf(rendered'[1].filteredArticles)]_vars

\* C23 witness: the front page shows an article that the front page before
\* left out; no article was written since, and the phrase is gone.
C23_Witness ==
    /\ Rendered
    /\ \E id \in hiddenBefore : id \in IDsOf(rendered[1].filteredArticles)
    /\ blocklist = <<>>

\* the (entry, feed URL, article) triples of the ParseFeed calls made
Parsed ==
    {<<lastCall[k].items[i], lastCall[k].feedURL, lastCall[k].articles[i]>> :
        k \in 1..Len(lastCall), i \in {1}}

\* the identifier of an entry: its GUID, or its link when it has no GUID
EntryIdentifier(item) == IF item.GUID = "" THEN item.Link ELSE item.GUID

\* C24: two parsed entries get the same article id if and only if they have
\* the same feed URL and the same entry identifier.
C24_GenerateArticleIDInjective ==
    \A x, y \in Parsed :
        x[3].ID = y[3].ID <=> (x[2] = y[2] /\ EntryIdentifier(x[1]) = EntryIdentifier(y[1]))

\* the time an entry brings: its published time, else its updated time
EntryTime(item) ==
    IF item.PublishedParsed # NULL THEN item.PublishedParsed ELSE item.UpdatedParsed

\* C28 as stated: publishedAt is the entry's published time if present, else
\* its updated time if present, else the time of the parse, and it is never
\* null or the zero time.
C28_PublishedAtNeverZero ==
    \A x \in Parsed :
        /\ x[3].PublishedAt = IF EntryTime(x[1]) # NULL THEN EntryTime(x[1]) ELSE now
        /\ x[3].PublishedAt \notin {NULL, ZeroTime}

\* C28: publishedAt is the entry's published time if present, else its
\* updated time if present, else the time of the parse; it is never null,
\* and it is the zero time only when the entry's own time is.
C28_PublishTimeNormalization ==
    \A x \in Parsed :
        /\ x[3].PublishedAt = IF EntryTime(x[1]) # NULL THEN EntryTime(x[1]) ELSE now
        /\ x[3].PublishedAt # NULL
        /\ x[3].PublishedAt = ZeroTime => EntryTime(x[1]) = ZeroTime

\* C28 witness: two entries were parsed, one with a published and an updated
\* time, one with neither.
C28_Witness ==
    /\ \E x \in Parsed :
          /\ x[1].PublishedParsed = Day0 /\ x[1].UpdatedParsed = Day0 - 1
          /\ x[3].PublishedAt = Day0
    /\ \E x \in Parsed :
          /\ x[1].PublishedParsed = NULL /\ x[1].UpdatedParsed = NULL
          /\ x[3].PublishedAt = now
          /\ x[3].FetchedAt = now

\* C29: summary is the entry's description if it is not empty, else its
\* content; content is the entry's content if it is not empty, else its
\* description; so both are non-empty as soon as one source field is, and
\* both are empty only when both source fields are.
C29_SummaryContentNormalization ==
    \A x \in Parsed :
        /\ x[3].Summary = IF x[1].Description # "" THEN x[1].Description ELSE x[1].Content
        /\ x[3].Content = IF x[1].Content # "" THEN x[1].Content ELSE x[1].Description
        /\ (x[1].Description # "" \/ x[1].Content # "")
              => (x[3].Summary # "" /\ x[3].Content # "")
        /\ (x[3].Summary = "" \/ x[3].Content = "")
              => (x[1].Description = "" /\ x[1].Content = "")

\* C29 witness: an entry with a description only and an entry with a
\* content only were parsed; each filled both fields from the one it has.
C29_Witness ==
    /\ \E x \in Parsed :
          /\ x[1].Description = "d" /\ x[1].Content = ""
          /\ x[3].Summary = "d" /\ x[3].Content = "d"
    /\ \E x \in Parsed :
          /\ x[1].Description = "" /\ x[1].Content = "c"
          /\ x[3].Summary = "c" /\ x[3].Content = "c"

\* the feeds the cycle listed
CycleFeeds == {feedList[i].ID : i \in 1..Len(feedList)}

\* the step is a step of the fetch phase of the scheduler
FetchPhaseStep ==
    /\ pc \in {"check", "fetch", "dedup", "upsert", "update"}
    /\ <<pc, idx, uidx>>' # <<pc, idx, uidx>>

\* C25: a feed that is disabled when the cycle lists the feeds is not in the
\* cycle's list; the cycle calls fetchAndStoreFeed for listed feeds only;
\* and no step of its fetch phase changes lastFetchedAt or the articles of a
\* feed that is not in the list.
C25_DisabledFeedsNeverFetched ==
    /\ [][(pc = "list" /\ pc' # "list") =>
             \A id \in DOMAIN feeds :
                ~feeds[id].Enabled => id \notin {feedList'[i].ID : i \in 1..Len(feedList')}]_vars
    /\ [](attempted \subseteq CycleFeeds /\ \A i \in 1..Len(feedList) : feedList[i].Enabled)
    /\ [][FetchPhaseStep =>
             \A id \in FeedIDs \ CycleFeeds :
                /\ feeds'[id].LastFetchedAt = feeds[id].LastFetchedAt
                /\ {a \in DOMAIN articles' : articles'[a].FeedID = id}
                      = {a \in DOMAIN articles : articles[a].FeedID = id}
                /\ \A a \in DOMAIN articles :
                      articles[a].FeedID = id => articles'[a] = articles[a]]_vars

\* C25 witness: the second cycle listed f1 only, f2 being disabled since its
\* fetch in the first cycle; f1 was fetched, f2 is as the first cycle left it.
C25_Witness ==
    /\ cycle = 2
    /\ pc = "update"
    /\ CycleFeeds = {"f1"}
    /\ attempted = {"f1"}
    /\ ~feeds["f2"].Enabled
    /\ feeds["f2"].LastFetchedAt = 0
    /\ attemptAt["f2"] = 0
    /\ now > 0

\* the last position of uniqueArticles whose upsert succeeded for the article
\* id at position i
LastStored(i) ==
    CHOOSE j \in 1..Len(uniqueArticles) :
        /\ j \notin lastUpsert.failed
        /\ uniqueArticles[j].ID = uniqueArticles[i].ID
        /\ \A k \in 1..Len(uniqueArticles) :
              (k \notin lastUpsert.failed /\ uniqueArticles[k].ID = uniqueArticles[i].ID)
                 => k <= j

\* C26: a failed UpsertArticle moves the store loop to the next article of
\* the same batch; when the loop is done every article whose upsert did not
\* fail is stored with the content the batch gave it; and the update of
\* lastFetchedAt that follows sets it to the time of the fetch.
C26_PerItemPersistenceIsolation ==
    /\ [][(pc = "upsert" /\ faults' = faults + 1) =>
             /\ uidx' = uidx + 1
             /\ idx' = idx
             /\ uniqueArticles' = uniqueArticles
             /\ pc' = IF uidx < Len(uniqueArticles) THEN "upsert" ELSE "update"]_vars
    /\ [](pc = "update" =>
             \A i \in (1..Len(uniqueArticles)) \ lastUpsert.failed :
                /\ uniqueArticles[i].ID \in DOMAIN articles
                /\ ContentFields(articles[uniqueArticles[i].ID])
                      = ContentFields(uniqueArticles[LastStored(i)]))
    /\ [][(pc = "update" /\ pc' # "update" /\ faults' = faults) =>
             feeds'[feedList[idx].ID].LastFetchedAt = now]_vars

\* C26 witness: of a batch of two articles the upsert of the first failed,
\* the second is stored, and the fetch is at its update of lastFetchedAt.
C26_Witness ==
    /\ pc = "update"
    /\ Len(uniqueArticles) = 2
    /\ lastUpsert.failed = {1}
    /\ uniqueArticles[1].ID \notin DOMAIN articles
    /\ uniqueArticles[2].ID \in DOMAIN articles
    /\ ContentFields(articles[uniqueArticles[2].ID]) = ContentFields(uniqueArticles[2])

\* C27: the first cycle runs at the start, with no tick fired or received,
\* and its expire run is made at the start time; after it a cycle begins
\* exactly when a tick is received from the ticker, one cycle per tick.
C27_CycleAtStartThenPerTick ==
    /\ [](cycle = 1 /\ InCycle => now = 0 /\ ~tickPending)
    /\ [](cycle = 1 /\ pc = "wait" /\ faults = 0 => expiredAt = 0)
    /\ [][cycle' # cycle =>
             /\ cycle' = cycle + 1
             /\ pc = "wait" /\ pc' = "list"
             /\ tickPending /\ ~tickPending'
             /\ now >= (cycle' - 1) * RefreshIntervalMinutes]_vars
    /\ [][(tickPending /\ ~tickPending') => cycle' = cycle + 1]_vars
    /\ [][pc' # pc => cycle = cycle' \/ pc = "wait"]_vars

\* C27 witness: the first cycle fetched at the start, the first tick came
\* one period later and the second cycle has run and expired at that time.
C27_Witness ==
    /\ cycle = 2
    /\ pc = "wait"
    /\ ~tickPending
    /\ now = RefreshIntervalMinutes
    /\ expiredAt = now
    /\ attemptAt["f1"] = 0
    /\ feeds["f1"].LastFetchedAt = 0

\* C30: the "today" view lists an article only if its publishedAt lies
\* between the start of the local day and the time of the query.
C30_TodayBoundedByNow ==
    (Answered /\ listed[1].view = "today") =>
       \A i \in 1..Len(listed[1].articles) :
          /\ listed[1].articles[i].PublishedAt >= StartOfDay(now)
          /\ listed[1].articles[i].PublishedAt <= now

\* the step is a write of the settings form's feed actions: the UpsertFeed
\* of "toggle" or of "add"
WebFeedWrite ==
    \/ HandleUpdateFeeds_TogglePut
    \/ \E id \in FeedIDs : HandleUpdateFeeds_Add(id)

\* C31: the feed actions of the web handlers (toggle enabled, add feed, also
\* with an id that is already stored) leave last_fetched_at of every stored
\* feed as it was.
C31_WebFeedActionsKeepLastFetched ==
    [][WebFeedWrite =>
          \A f \in DOMAIN feeds :
             /\ f \in DOMAIN feeds'
             /\ feeds'[f].LastFetchedAt = feeds[f].LastFetchedAt]_vars

\* the stored articles that match the query: in its view and through its
\* feed and read filters
MatchingIDs(q) == {id \in InView(q) : PassesFilters(articles[id], q)}

\* row o of the store comes strictly before article a of a result in the
\* unread-first, newest-first order
StrictlyBefore(o, a) ==
    \/ o.IsRead = 0 /\ a.IsRead
    \/ (o.IsRead = 1) = a.IsRead /\ o.PublishedAt > a.PublishedAt

\* C32: ListArticlesByView returns at most limit articles, and they are the
\* first limit articles of the matching set in unread-first, newest-first
\* order: as many as match or limit of them, in that order, and no article
\* that was cut comes before one that was returned.
C32_LimitKeepsTheHead ==
    Answered =>
       LET r == listed[1].articles
           cut == MatchingIDs(listed[1]) \ ListedIDs
       IN  /\ Len(r) <= listed[1].limit
           /\ ListsUpToLimit(MatchingIDs(listed[1]))
           /\ \A i, j \in 1..Len(r) :
                 i < j => ~StrictlyBefore([r[j] EXCEPT !.IsRead = BoolToInt(r[j].IsRead)], r[i])
           /\ \A id \in cut : \A i \in 1..Len(r) : ~StrictlyBefore(articles[id], r[i])

\* C32 witness: three articles match a query with limit 2; the result is two
\* unread articles, the second older than the read article that was cut.
C32_Witness ==
    /\ Answered
    /\ listed[1].limit = 2
    /\ Len(listed[1].articles) = 2
    /\ Cardinality(MatchingIDs(listed[1])) = 3
    /\ ~listed[1].articles[2].IsRead
    /\ \E id \in MatchingIDs(listed[1]) \ ListedIDs :
          /\ articles[id].IsRead = 1
          /\ articles[id].PublishedAt > listed[1].articles[2].PublishedAt

\* the step is the title guard of a fetch: all lookups of the batch
GuardStep == pc = "dedup" /\ pc' # "dedup"

\* C33: the title guard of a batch looks at the store as it is before any
\* entry of the batch is written: an entry passes if its lookup failed or no
\* row stored before the batch has its title, whatever the other entries of
\* the batch are, so two entries with one title that is not stored both pass;
\* the store loop then upserts every entry that passed, without a second
\* lookup, and each one whose upsert did not fail is stored.
C33_GuardSeesStoreBeforeBatch ==
    [][/\ GuardStep =>
             /\ uniqueArticles' =
                   Pick(batch, {i \in 1..Len(batch) :
                                   i \in lookupErr' \/ ~TitleStored(batch[i].Title)})
             /\ \A i, j \in 1..Len(batch) :
                   (/\ i # j
                    /\ batch[i].Title = batch[j].Title
                    /\ batch[i].ID # batch[j].ID
                    /\ ~TitleStored(batch[i].Title))
                      => \E k, l \in 1..Len(uniqueArticles') :
                            /\ k # l
                            /\ uniqueArticles'[k] = batch[i]
                            /\ uniqueArticles'[l] = batch[j]
             /\ articles' = articles
       /\ UpsertPass =>
             /\ uniqueArticles' = uniqueArticles
             /\ \/ articles' = articles /\ uidx \in lastUpsert'.failed
                \/ /\ uniqueArticles[uidx].ID \in DOMAIN articles'
                   /\ articles'[uniqueArticles[uidx].ID].Title = uniqueArticles[uidx].Title]_vars

\* C33 witness: a batch of two entries with one title and two identifiers
\* went through the guard, and the store has a row for each, with that title.
C33_Witness ==
    /\ pc = "update"
    /\ Len(batch) = 2
    /\ batch[1].Title = batch[2].Title
    /\ batch[1].ID # batch[2].ID
    /\ uniqueArticles = batch
    /\ lookupErr = {}
    /\ \A i \in 1..2 :
          /\ batch[i].ID \in DOMAIN articles
          /\ articles[batch[i].ID].Title = batch[i].Title
          /\ articles[batch[i].ID].FetchedAt = batch[i].FetchedAt

\* entry i of the batch is a re-fetch with the title unchanged: the row
\* stored under its id has its title
SameTitleRefetch(i) ==
    /\ batch[i].ID \in DOMAIN articles
    /\ articles[batch[i].ID].Title = batch[i].Title

\* a step of fetchAndStoreFeed from the title guard on
FetchStoreStep ==
    /\ pc \in {"dedup", "upsert", "update"}
    /\ pc' # pc \/ uidx' # uidx \/ idx' # idx

\* the rows under the ids that no entry on its way to UpsertArticle has are
\* left as they are
RowsOfDroppedEntriesKept ==
    \A id \in DOMAIN articles :
       (\A k \in 1..Len(uniqueArticles') : uniqueArticles'[k].ID # id)
          => id \in DOMAIN articles' /\ articles'[id] = articles[id]

WasExpired(id) == \E r \in expired : r.ID = id

\* the entry has no row since the last DeleteExpiredArticles removed it
ExpiredAndGone(a) == WasExpired(a.ID) /\ a.ID \notin DOMAIN articles

\* C35 as stated: when a fetch of a feed went through without a failure,
\* every entry it listed whose row the last DeleteExpiredArticles removed is
\* stored again, with fetchedAt the time of that fetch.
C35_ExpiredEntryAlwaysComesBack ==
    (pc = "update" /\ faults = 0) =>
       \A i \in 1..Len(batch) :
          WasExpired(batch[i].ID) =>
             /\ batch[i].ID \in DOMAIN articles
             /\ articles[batch[i].ID].FetchedAt = attemptAt[batch[i].FeedID]

\* C35 amended: DeleteExpiredArticles removes unsaved rows only; an entry
\* whose row it removed passes the title guard of the next fetch exactly when
\* its lookup fails or no stored row has its title, and the upsert of such an
\* entry, unless it fails, inserts a new row with the entry's content,
\* fetchedAt the time of that fetch, isRead = 0 and isSaved = 0.
C35_ExpiredEntryComesBackUnlessTitleStored ==
    [][/\ ExpireRan =>
             /\ expired' = {articles[id] : id \in DOMAIN articles \ DOMAIN articles'}
             /\ \A r \in expired' : r.IsSaved = 0
       /\ GuardStep =>
             \E passed \in SUBSET (1..Len(batch)) :
                /\ uniqueArticles' = Pick(batch, passed)
                /\ \A i \in 1..Len(batch) :
                      ExpiredAndGone(batch[i]) =>
                         (i \in passed <=>
                             (i \in lookupErr' \/ ~TitleStored(batch[i].Title)))
       /\ (UpsertPass /\ ExpiredAndGone(uniqueArticles[uidx])) =>
             \/ articles' = articles /\ uidx \in lastUpsert'.failed
             \/ /\ DOMAIN articles' = DOMAIN articles \cup {uniqueArticles[uidx].ID}
                /\ LET a == uniqueArticles[uidx]
                       r == articles'[a.ID]
                   IN  /\ ContentFields(r) = ContentFields(a)
                       /\ r.FeedID = a.FeedID
                       /\ r.FetchedAt = now
                       /\ r.FetchedAt = attemptAt[a.FeedID]
                       /\ r.IsRead = 0
                       /\ r.IsSaved = 0]_vars

\* C35 witness: the row of an entry, read and three days old, was removed by
\* DeleteExpiredArticles; the next cycle fetched its feed and the entry is
\* stored again, unread, unsaved and with the time of this fetch.
C35_Witness ==
    /\ cycle = 2
    /\ pc = "update"
    /\ faults = 0
    /\ Len(batch) = 1
    /\ \E r \in expired :
          /\ r.ID = batch[1].ID
          /\ r.IsRead = 1
          /\ r.FetchedAt = 0
    /\ batch[1].ID \in DOMAIN articles
    /\ articles[batch[1].ID].FetchedAt = now
    /\ articles[batch[1].ID].IsRead = 0
    /\ articles[batch[1].ID].IsSaved = 0

\* the user's last ToggleArticleSaved was for this article and saved it
SavedByLastToggle(id) ==
    /\ lastCall # <<>>
    /\ lastCall[1].op = "ToggleArticleSaved"
    /\ lastCall[1].ID = id
    /\ lastCall[1].before # <<>>
    /\ lastCall[1].before[1].IsSaved = 0

\* C36: a DeleteExpiredArticles run removes an article that is unsaved and
\* was fetched more than 72 hours before, in particular one the user has
\* unsaved, and keeps an article that the user saved again before the run.
C36_SavedAgainIsKept ==
    [][ExpireRan =>
          \A id \in DOMAIN articles :
             /\ (articles[id].IsSaved = 0
                 /\ now - articles[id].FetchedAt > ExpirationMinutes)
                   => id \notin DOMAIN articles'
             /\ SavedByLastToggle(id) =>
                   id \in DOMAIN articles' /\ articles'[id] = articles[id]]_vars

\* the smaller of two numbers
Min(a, b) == IF a < b THEN a ELSE b

\* the elements of list at the positions lo .. hi - 1, counted from 0 and
\* clipped to the list
Positions(list, lo, hi) ==
    [i \in 1..(Min(hi, Len(list)) - Min(lo, Len(list))) |-> list[Min(lo, Len(list)) + i]]

\* C37: with itemsPerPage n > 0, page p of the front page shows exactly the
\* elements of the filtered list at the positions (p-1)*n .. p*n-1, clipped
\* to the list and none when the page is past its end, and HasNextPage is
\* true exactly when elements remain after the page.
C37_PagesPartitionFilteredList ==
    Rendered =>
       LET d == rendered[1]
           n == ui.ItemsPerPage
       IN  /\ ~d.Panic
           /\ d.Articles = Positions(d.filteredArticles, (d.Page - 1) * n, d.Page * n)
           /\ d.HasNextPage <=> Len(d.filteredArticles) > d.Page * n

====
